---- MODULE Spec2Model ----
(***************************************************************************)
(* Model of the file-backed entity store of @backlog-md/core               *)
(* (src/src/core/Core.ts) together with the pieces of the text codec       *)
(* (src/src/index.ts), the config codec (src/unnamed/part_007) and the     *)
(* milestone utilities (src/unnamed/part_010) the store relies on.         *)
(*                                                                         *)
(* Representation                                                          *)
(*   task id        a sequence of naturals: <<7>> is "7", <<7, 1>> is      *)
(*                  "7.1", << >> is a file stem without any digit.         *)
(*   disk path      [dir, id, name]: backlog/<dir>/<id> - <name>.md        *)
(*   path string    [abs, dir, id, name]: a disk path as the program       *)
(*                  spells it, absolute (joined to the project root) or    *)
(*                  relative to the project root.                          *)
(*   task file      the lines serializeTaskMarkdown emits for the fields   *)
(*                  the model carries: [status, milestone, title].        *)
(*   milestone path [num, name]: backlog/milestones/m-<num> - <name>.md.   *)
(*   undefined      the string Undefined; null the string Null.            *)
(* Every public call is one atomic action (calls are awaited one by one).  *)
(***************************************************************************)
EXTENDS Integers, Sequences, FiniteSets, TLC

\* ------------------------------------------------------------------ bounds

\* number of steps (public calls, external events) in one behaviour
MaxCalls == 4
\* createTask is not explored beyond this task number
MaxTaskNum == 3

\* ------------------------------------------------------------------ values

Undefined == "<undefined>"
Null == "<null>"

DEFAULT_STATUSES == <<"To Do", "In Progress", "Done">>
ParseFallbackStatus == "backlog"

\* "m-<n>"
MilestoneIdString(n) ==
  CASE n = 0 -> "m-0" [] n = 1 -> "m-1" [] n = 2 -> "m-2" [] OTHER -> "m-3"

Truthy(s) == s # Undefined /\ s # Null /\ s # ""

SeqToSet(s) == {s[i] : i \in 1..Len(s)}

\* ------------------------------------------------------------------ utils/milestones

\* name.trim()
normalizeMilestoneName(name) ==
  CASE name = " m-0 " -> "m-0"
    [] name = " " -> ""
    [] OTHER -> name

\* String.prototype.toLowerCase on the spellings above
ToLowerCase(s) ==
  CASE s = "M-0" -> "m-0"
    [] OTHER -> s

\* milestoneKey(name): the trimmed, lower-cased name, "" for none
milestoneKeyRaw(name) == IF name = Undefined \/ name = Null THEN "" ELSE name
milestoneKey(name) ==
  ToLowerCase(normalizeMilestoneName(IF name = Undefined \/ name = Null THEN "" ELSE name))

\* ------------------------------------------------------------------ markdown codec

\* title.replace(/[<>:"/\\|?*]/g, "").replace(/\s+/g, " ").slice(0, 50)
SafeTitle(title) ==
  CASE title = "B?" -> "B"
    [] OTHER -> title

\* getMilestoneFilename: as SafeTitle, whitespace to "-", lower-cased
MilestoneSafeTitle(title) ==
  CASE title = "R 1" -> "r-1"
    [] title = "R 2" -> "r-2"
    [] OTHER -> title

Pow10Digits(m) == IF m < 10 THEN 10 ELSE IF m < 100 THEN 100 ELSE 1000

\* parseInt(id.replace(/\D/g, ""), 10); -1 stands for NaN
ParseIdDigits(id) ==
  CASE Len(id) = 0 -> -1
    [] Len(id) = 1 -> id[1]
    [] OTHER -> id[1] * Pow10Digits(id[2]) + id[2]

\* extractIdFromPath: the id part of the file name (or the stem)
extractIdFromPath(path) == path.id

\* extractTitleFromPath
extractTitleFromPath(path) == path.name

\* does the string contain "/completed/": the completed directory, or a
\* segment of the project root when the path is absolute
HasCompletedSegment(path, rootHasCompleted) ==
  path.dir = "completed" \/ (path.abs /\ rootHasCompleted)

\* extractSourceFromPath
extractSourceFromPath(path, rootHasCompleted) ==
  IF HasCompletedSegment(path, rootHasCompleted) THEN "completed" ELSE "tasks"

\* extractTaskIndexFromPath
extractTaskIndexFromPath(path, rootHasCompleted) ==
  [id |-> extractIdFromPath(path), filePath |-> path,
   title |-> extractTitleFromPath(path),
   source |-> extractSourceFromPath(path, rootHasCompleted)]

\* serializeTaskMarkdown: status always, milestone only when set, "# title"
serializeTaskMarkdown(task) ==
  [status |-> task.status,
   milestone |-> IF Truthy(task.milestone) THEN task.milestone ELSE Undefined,
   title |-> task.title]

\* parseFrontmatter matches /^(\w+):\s*(.+)$/ and trims the value: an empty
\* or blank value leaves the key unset
FrontmatterValue(v) ==
  IF v = Undefined \/ normalizeMilestoneName(v) = "" THEN Undefined
  ELSE normalizeMilestoneName(v)

\* parseTaskMarkdown; source is set by the caller
parseTaskMarkdown(content, path) ==
  [id |-> extractIdFromPath(path),
   title |-> content.title,
   status |-> IF FrontmatterValue(content.status) = Undefined
              THEN ParseFallbackStatus ELSE FrontmatterValue(content.status),
   milestone |-> FrontmatterValue(content.milestone),
   source |-> Undefined,
   filePath |-> path]

\* serializeMilestoneMarkdown / parseMilestoneMarkdown carry id, title, tasks
serializeMilestoneMarkdown(m) == [id |-> m.id, title |-> m.title, tasks |-> m.tasks]
parseMilestoneMarkdown(content) == [id |-> content.id, title |-> content.title, tasks |-> content.tasks]

\* ------------------------------------------------------------------ config codec

NoConfig == [present |-> FALSE]

\* parseBacklogConfig: statuses and default_status with their fallbacks
parseBacklogConfig(raw) ==
  [present |-> TRUE,
   statuses |-> IF raw.hasStatuses THEN raw.statuses ELSE DEFAULT_STATUSES,
   defaultStatus |-> IF raw.default_status # "" THEN raw.default_status
                     ELSE DEFAULT_STATUSES[1]]

\* ------------------------------------------------------------------ state

VARIABLES
  configFile,        \* backlog/config.yml on disk, or NoConfig
  taskFiles,         \* disk path -> task file content
  milestoneFiles,    \* milestone path -> milestone file content
  rootHasCompleted,  \* the project root itself has a /completed/ segment
  config,            \* Core.config
  tasks,             \* Core.tasks: id -> Task
  initialized,       \* Core.initialized
  taskIndex,         \* Core.taskIndex: id -> TaskIndexEntry
  lazyInitialized,   \* Core.lazyInitialized
  last,              \* the call that completed last: [op, arg, result, io]
  calls,             \* number of steps taken
  pending            \* the calls issued and not awaited: caller -> position and locals

vars == <<configFile, taskFiles, milestoneFiles, rootHasCompleted, config, tasks,
          initialized, taskIndex, lazyInitialized, last, calls, pending>>

disk == <<configFile, taskFiles, milestoneFiles, rootHasCompleted>>
store == <<config, tasks, initialized, taskIndex, lazyInitialized>>

\* ------------------------------------------------------------------ helpers

EmptyMap == [x \in {} |-> x]

Put(f, k, v) == [x \in DOMAIN f \cup {k} |-> IF x = k THEN v ELSE f[x]]

Remove(f, k) == [x \in DOMAIN f \ {k} |-> f[x]]

\* all enumerations of a finite set, as sequences
RECURSIVE Perms(_)
Perms(S) ==
  IF S = {} THEN {<< >>}
  ELSE UNION {{<<x>> \o p : p \in Perms(S \ {x})} : x \in S}

DiskPath(p) == [dir |-> p.dir, id |-> p.id, name |-> p.name]
AbsPath(dp) == [abs |-> TRUE, dir |-> dp.dir, id |-> dp.id, name |-> dp.name]
RelPath(dp) == [abs |-> FALSE, dir |-> dp.dir, id |-> dp.id, name |-> dp.name]

\* fs.join(dir, `${id} - ${safeTitle}.md`)
TaskFilePath(dir, id, title) ==
  [abs |-> TRUE, dir |-> dir, id |-> id, name |-> SafeTitle(title)]

\* results of a call
Void == [kind |-> "void"]
NullResult == [kind |-> "null"]
UndefinedResult == [kind |-> "undefined"]
TaskResult(t) == [kind |-> "task", task |-> t]
TasksResult(ts) == [kind |-> "tasks", tasks |-> ts]
BoolResult(b) == [kind |-> "boolean", value |-> b]
MilestoneResult(m) == [kind |-> "milestone", milestone |-> m]
ErrorResult(e) == [kind |-> "error", error |-> e]

NotInitialized == ErrorResult("Core not initialized")
NotAProject == ErrorResult("Not a Backlog.md project")

NoArg == [none |-> TRUE]

Call(op, arg, result, io) == [op |-> op, arg |-> arg, result |-> result, io |-> io]

\* an adapter call: <<operation, directory it touches>>
Io(op, where) == <<op, where>>

\* fs.deleteFile(path) inside a catch: the call, marked when no file is there
DeleteFileIo(files, path) ==
  IF DiskPath(path) \in DOMAIN files THEN Io("deleteFile", path.dir)
  ELSE Io("deleteFile(missing)", path.dir)

\* ensureInitialized does not throw
IsInitialized == (initialized \/ lazyInitialized) /\ config.present

CanCall == calls < MaxCalls

\* the callers that issue a call without awaiting the other's
Callers == {"first", "second"}

\* no call of the caller is in flight
Idle == [pc |-> "idle"]
NoPending == [c \in Callers |-> Idle]

\* ------------------------------------------------------------------ initial projects

TaskFileContent(status, milestone, title) ==
  [status |-> status, milestone |-> milestone, title |-> title]

StdConfig ==
  [present |-> TRUE, hasStatuses |-> TRUE, statuses |-> DEFAULT_STATUSES,
   default_status |-> "To Do"]

\* no task yet
EmptyTree == [taskFiles |-> EmptyMap, milestoneFiles |-> EmptyMap]

\* an active task in milestone m-0, a completed task, the milestone
SmallTree ==
  [taskFiles |->
     ([dir |-> "tasks", id |-> <<1>>, name |-> "A"] :> TaskFileContent("To Do", "m-0", "A"))
     @@ ([dir |-> "completed", id |-> <<2>>, name |-> "B"] :> TaskFileContent("Done", Undefined, "B?")),
   milestoneFiles |->
     ([num |-> 0, name |-> "r-1"] :> [id |-> "m-0", title |-> "R 1", tasks |-> << <<1>> >>])]

InitialProjects ==
  { [configFile |-> StdConfig] @@ EmptyTree,
    [configFile |-> StdConfig] @@ SmallTree,
    [configFile |-> [StdConfig EXCEPT !.hasStatuses = FALSE, !.default_status = "Backlog"]]
       @@ EmptyTree,
    [configFile |-> NoConfig] @@ SmallTree }

Init ==
  /\ \E p \in InitialProjects :
       /\ configFile = p.configFile
       /\ taskFiles = p.taskFiles
       /\ milestoneFiles = p.milestoneFiles
  /\ rootHasCompleted = FALSE
  /\ config = NoConfig
  /\ tasks = EmptyMap
  /\ initialized = FALSE
  /\ taskIndex = EmptyMap
  /\ lazyInitialized = FALSE
  /\ last = Call("new", NoArg, Void, {})
  /\ calls = 0
  /\ pending = NoPending

\* ------------------------------------------------------------------ initialization

\* the files readDir(backlog/<dir>) lists (sub-directories hold none of them)
FilesIn(dir) == {p \in DOMAIN taskFiles : p.dir = dir}

\* loadTasksFromDirectory over a listing, starting from the map ts
RECURSIVE loadTasksFromDirectoryFirstWins(_, _, _)
RECURSIVE loadTasksFromDirectory(_, _, _)
loadTasksFromDirectoryFirstWins(ts, listing, source) ==
  IF listing = << >> THEN ts
  ELSE LET fullPath == AbsPath(Head(listing))
           task == [parseTaskMarkdown(taskFiles[Head(listing)], fullPath)
                      EXCEPT !.source = source]
       IN loadTasksFromDirectoryFirstWins(
            IF task.id \in DOMAIN ts THEN ts ELSE Put(ts, task.id, task),
            Tail(listing), source)
loadTasksFromDirectory(ts, listing, source) ==
  IF listing = << >> THEN ts
  ELSE LET fullPath == AbsPath(Head(listing))
           task == [parseTaskMarkdown(taskFiles[Head(listing)], fullPath)
                      EXCEPT !.source = source]
       IN loadTasksFromDirectory(Put(ts, task.id, task), Tail(listing), source)

\* the task map initialize() builds for the listings of tasks/ and completed/
EagerTasks(ts, activeListing, completedListing) ==
  loadTasksFromDirectory(loadTasksFromDirectory(ts, activeListing, "local"),
                         completedListing, "completed")

InitializeIo ==
  {Io("exists", "config"), Io("readFile", "config"), Io("exists", "tasks"),
   Io("exists", "completed")}
    \cup (IF FilesIn("tasks") # {} THEN {Io("readDir", "tasks"), Io("readFile", "tasks")} ELSE {})
    \cup (IF FilesIn("completed") # {}
          THEN {Io("readDir", "completed"), Io("readFile", "completed")} ELSE {})

\* Core.initialize()
Initialize ==
  /\ CanCall
  /\ calls' = calls + 1
  /\ UNCHANGED pending
  /\ UNCHANGED <<disk, taskIndex, lazyInitialized>>
  /\ IF initialized
     THEN /\ UNCHANGED <<config, tasks, initialized>>
          /\ last' = Call("initialize", NoArg, Void, {})
     ELSE IF ~configFile.present
     THEN /\ UNCHANGED <<config, tasks, initialized>>
          /\ last' = Call("initialize", NoArg, NotAProject, {Io("exists", "config")})
     ELSE \E al \in Perms(FilesIn("tasks")), cl \in Perms(FilesIn("completed")) :
          /\ config' = parseBacklogConfig(configFile)
          /\ tasks' = EagerTasks(tasks, al, cl)
          /\ initialized' = TRUE
          /\ last' = Call("initialize", [listing |-> al \o cl], Void, InitializeIo)

\* the path strings a caller may hand to initializeLazy: every task file, and
\* config.yml
ConfigPath(abs) == [abs |-> abs, dir |-> "", id |-> << >>, name |-> "config.yml"]
AllFilePaths(abs) ==
  {[abs |-> abs, dir |-> p.dir, id |-> p.id, name |-> p.name] : p \in DOMAIN taskFiles}
    \cup {ConfigPath(abs)}

EndsWithMd(path) == path.dir # ""
IsTaskFile(path) == path.dir \in {"tasks", "tasks/sub"}
IsCompletedFile(path) == path.dir = "completed"

\* the loop of initializeLazy over filePaths
RECURSIVE BuildTaskIndex(_, _)
BuildTaskIndex(index, filePaths) ==
  IF filePaths = << >> THEN index
  ELSE LET filePath == Head(filePaths)
           indexEntry == extractTaskIndexFromPath(filePath, rootHasCompleted)
       IN IF ~EndsWithMd(filePath) \/ (~IsTaskFile(filePath) /\ ~IsCompletedFile(filePath))
          THEN BuildTaskIndex(index, Tail(filePaths))
          ELSE BuildTaskIndex(Put(index, indexEntry.id, indexEntry), Tail(filePaths))

\* Core.initializeLazy(filePaths)
InitializeLazy ==
  /\ CanCall
  /\ calls' = calls + 1
  /\ UNCHANGED pending
  /\ UNCHANGED <<disk, tasks, initialized>>
  /\ IF lazyInitialized
     THEN /\ UNCHANGED <<config, taskIndex, lazyInitialized>>
          /\ last' = Call("initializeLazy", NoArg, Void, {})
     ELSE IF ~configFile.present
     THEN /\ UNCHANGED <<config, taskIndex, lazyInitialized>>
          /\ last' = Call("initializeLazy", NoArg, NotAProject, {Io("exists", "config")})
     ELSE \E abs \in BOOLEAN : \E filePaths \in Perms(AllFilePaths(abs)) :
          /\ config' = parseBacklogConfig(configFile)
          /\ taskIndex' = BuildTaskIndex(EmptyMap, filePaths)
          /\ lazyInitialized' = TRUE
          /\ last' = Call("initializeLazy", NoArg, Void,
                          {Io("exists", "config"), Io("readFile", "config")})

\* ------------------------------------------------------------------ loading

\* the ids calls are made with: every id the store or the disk knows, and one
\* that never exists
UnknownId == <<9>>
CallIds ==
  DOMAIN tasks \cup DOMAIN taskIndex \cup {p.id : p \in DOMAIN taskFiles} \cup {UnknownId}

\* Core.loadTask(id) on the task map ts: [tasks, result, io]
loadTaskUncached(ts, id) ==
  IF id \notin DOMAIN taskIndex \/ DiskPath(taskIndex[id].filePath) \notin DOMAIN taskFiles
  THEN [tasks |-> ts, result |-> UndefinedResult, io |-> {}]
  ELSE LET indexEntry == taskIndex[id]
           task == [parseTaskMarkdown(taskFiles[DiskPath(indexEntry.filePath)],
                                      indexEntry.filePath)
                      EXCEPT !.source = IF indexEntry.source = "completed"
                                        THEN "completed" ELSE "local"]
       IN [tasks |-> Put(ts, task.id, task), result |-> TaskResult(task),
           io |-> {Io("readFile", indexEntry.filePath.dir)}]
loadTask(ts, id) ==
  IF id \in DOMAIN ts
  THEN [tasks |-> ts, result |-> TaskResult(ts[id]), io |-> {}]
  ELSE IF id \notin DOMAIN taskIndex
  THEN [tasks |-> ts, result |-> UndefinedResult, io |-> {}]
  ELSE LET indexEntry == taskIndex[id]
           file == DiskPath(indexEntry.filePath)
           task == [parseTaskMarkdown(taskFiles[file], indexEntry.filePath)
                      EXCEPT !.source = IF indexEntry.source = "completed"
                                        THEN "completed" ELSE "local"]
       IN IF file \notin DOMAIN taskFiles
          THEN [tasks |-> ts, result |-> UndefinedResult,
                io |-> {Io("readFile", file.dir)}]
          ELSE [tasks |-> Put(ts, task.id, task), result |-> TaskResult(task),
                io |-> {Io("readFile", file.dir)}]

\* Core.loadTask(id)
LoadTask ==
  /\ CanCall
  /\ calls' = calls + 1
  /\ UNCHANGED pending
  /\ \E id \in CallIds :
       LET r == loadTask(tasks, id)
       IN /\ tasks' = r.tasks
          /\ last' = Call("loadTask", [id |-> id], r.result, r.io)
  /\ UNCHANGED <<disk, config, initialized, taskIndex, lazyInitialized>>

\* Core.loadTasks(ids), the loads taken in the order of ids: [tasks, result, io]
RECURSIVE loadTasks(_, _)
loadTasks(ts, ids) ==
  IF ids = << >> THEN [tasks |-> ts, result |-> << >>, io |-> {}]
  ELSE LET r == loadTask(ts, Head(ids))
           rest == loadTasks(r.tasks, Tail(ids))
       IN [tasks |-> rest.tasks,
           result |-> (IF r.result.kind = "task" THEN <<r.result.task>> ELSE << >>)
                        \o rest.result,
           io |-> r.io \cup rest.io]

\* the ids of all task files of the tree
AllIds == {p.id : p \in DOMAIN taskFiles}

\* Core.loadTasks(allIds)
LoadTasks ==
  /\ CanCall
  /\ calls' = calls + 1
  /\ UNCHANGED pending
  /\ \E ids \in Perms(AllIds) :
       LET r == loadTasks(tasks, ids)
       IN /\ tasks' = r.tasks
          /\ last' = Call("loadTasks", [ids |-> ids], TasksResult(r.result), r.io)
  /\ UNCHANGED <<disk, config, initialized, taskIndex, lazyInitialized>>

\* Core.getTask(id)
GetTask ==
  /\ CanCall
  /\ calls' = calls + 1
  /\ UNCHANGED pending
  /\ \E id \in CallIds :
       last' = IF ~IsInitialized THEN Call("getTask", [id |-> id], NotInitialized, {})
               ELSE IF id \in DOMAIN tasks
               THEN Call("getTask", [id |-> id], TaskResult(tasks[id]), {})
               ELSE Call("getTask", [id |-> id], UndefinedResult, {})
  /\ UNCHANGED <<disk, store>>

\* ------------------------------------------------------------------ milestones

MilestoneNums == 0..3

\* extractMilestoneIdFromFilename(entry)
extractMilestoneIdFromFilename(path) == MilestoneIdString(path.num)

\* entries.find(entry => extractMilestoneIdFromFilename(entry) === id); at most
\* one file carries an id in the states explored
MilestoneFilesOf(mf, id) == {p \in DOMAIN mf : extractMilestoneIdFromFilename(p) = id}
FindMilestoneFile(mf, id) == CHOOSE p \in MilestoneFilesOf(mf, id) : TRUE

MilestoneExists(mf, id) == MilestoneFilesOf(mf, id) # {}

\* Core.loadMilestone(id) on the milestone files mf; only called when one exists
loadMilestone(mf, id) == parseMilestoneMarkdown(mf[FindMilestoneFile(mf, id)])

LoadMilestoneIo(mf) ==
  IF mf = EmptyMap THEN {Io("exists", "milestones")}
  ELSE {Io("exists", "milestones"), Io("readDir", "milestones"), Io("readFile", "milestones")}

\* the N of "m-N"
MilestoneNumOf(id) == CHOOSE n \in MilestoneNums : MilestoneIdString(n) = id

\* getMilestoneFilename(id, title)
getMilestoneFilename(id, title) ==
  [num |-> MilestoneNumOf(id), name |-> MilestoneSafeTitle(title)]

\* Core.writeMilestoneFile(milestone): the milestone files afterwards
writeMilestoneFile(mf, milestone) ==
  LET kept == IF MilestoneExists(mf, milestone.id)
              THEN Remove(mf, FindMilestoneFile(mf, milestone.id)) ELSE mf
  IN Put(kept, getMilestoneFilename(milestone.id, milestone.title),
         serializeMilestoneMarkdown(milestone))

WriteMilestoneIo ==
  {Io("readDir", "milestones"), Io("deleteFile", "milestones"), Io("writeFile", "milestones")}

\* Core.addTaskToMilestone(taskId, milestoneId): [files, io]
addTaskToMilestoneNoWrite(mf, taskId, milestoneId) ==
  [files |-> mf, io |-> LoadMilestoneIo(mf)]
addTaskToMilestone(mf, taskId, milestoneId) ==
  IF ~MilestoneExists(mf, milestoneId)
  THEN [files |-> mf, io |-> LoadMilestoneIo(mf)]
  ELSE LET milestone == loadMilestone(mf, milestoneId)
       IN IF taskId \in SeqToSet(milestone.tasks)
          THEN [files |-> mf, io |-> LoadMilestoneIo(mf)]
          ELSE [files |-> writeMilestoneFile(mf,
                            [milestone EXCEPT !.tasks = Append(milestone.tasks, taskId)]),
                io |-> LoadMilestoneIo(mf) \cup WriteMilestoneIo]

\* Core.removeTaskFromMilestone(taskId, milestoneId): [files, io]
removeTaskFromMilestone(mf, taskId, milestoneId) ==
  IF ~MilestoneExists(mf, milestoneId)
  THEN [files |-> mf, io |-> LoadMilestoneIo(mf)]
  ELSE LET milestone == loadMilestone(mf, milestoneId)
       IN IF taskId \notin SeqToSet(milestone.tasks)
          THEN [files |-> mf, io |-> LoadMilestoneIo(mf)]
          ELSE [files |-> writeMilestoneFile(mf,
                            [milestone EXCEPT !.tasks =
                               SelectSeq(milestone.tasks, LAMBDA t : t # taskId)]),
                io |-> LoadMilestoneIo(mf) \cup WriteMilestoneIo]

\* createMilestone is not explored beyond m-<MaxMilestoneNum>
MaxMilestoneNum == 1

MilestoneTitles == {"R 1"}

\* the numbers of the files whose name starts with m-<digits>
ExistingMilestoneNums == {p.num : p \in DOMAIN milestoneFiles}

SetMax(S) == CHOOSE x \in S : \A y \in S : y <= x

NextMilestoneNum ==
  IF ExistingMilestoneNums # {} THEN SetMax(ExistingMilestoneNums) + 1 ELSE 0

\* Core.createMilestone(input)
CreateMilestone ==
  /\ CanCall
  /\ calls' = calls + 1
  /\ UNCHANGED pending
  /\ NextMilestoneNum <= MaxMilestoneNum
  /\ \E title \in MilestoneTitles :
       LET id == MilestoneIdString(NextMilestoneNum)
           milestone == [id |-> id, title |-> title, tasks |-> << >>]
       IN /\ milestoneFiles' = Put(milestoneFiles, getMilestoneFilename(id, title),
                                   serializeMilestoneMarkdown(milestone))
          /\ last' = Call("createMilestone", [title |-> title], MilestoneResult(milestone),
                          {Io("createDir", "milestones"), Io("readDir", "milestones"),
                           Io("writeFile", "milestones")})
  /\ UNCHANGED <<configFile, taskFiles, rootHasCompleted, store>>

\* the ids deleteMilestone is called with
DeleteMilestoneIds == {MilestoneIdString(n) : n \in MilestoneNums}

\* deleteMilestone: the task map afterwards (no statement of it touches tasks)
deleteMilestoneClearingTasks(ts, id) ==
  [t \in DOMAIN ts |->
     IF milestoneKey(ts[t].milestone) = milestoneKey(id)
     THEN [ts[t] EXCEPT !.milestone = Undefined] ELSE ts[t]]
deleteMilestoneTasks(ts, id) == ts

\* Core.deleteMilestone(id)
DeleteMilestone ==
  /\ CanCall
  /\ calls' = calls + 1
  /\ UNCHANGED pending
  /\ \E id \in DeleteMilestoneIds :
       LET arg == [id |-> id]
       IN IF milestoneFiles = EmptyMap
          THEN /\ last' = Call("deleteMilestone", arg, BoolResult(FALSE),
                               {Io("exists", "milestones")})
               /\ UNCHANGED <<disk, store>>
          ELSE IF ~MilestoneExists(milestoneFiles, id)
          THEN /\ last' = Call("deleteMilestone", arg, BoolResult(FALSE),
                               {Io("exists", "milestones"), Io("readDir", "milestones")})
               /\ UNCHANGED <<disk, store>>
          ELSE /\ milestoneFiles' = Remove(milestoneFiles,
                                           FindMilestoneFile(milestoneFiles, id))
               /\ tasks' = deleteMilestoneTasks(tasks, id)
               /\ last' = Call("deleteMilestone", arg, BoolResult(TRUE),
                               {Io("exists", "milestones"), Io("readDir", "milestones"),
                                Io("deleteFile", "milestones")})
               /\ UNCHANGED <<configFile, taskFiles, rootHasCompleted, config,
                              initialized, taskIndex, lazyInitialized>>

\* ------------------------------------------------------------------ task mutations

\* the inputs createTask is called with
CreateTaskInputs ==
  { [title |-> "A", status |-> Undefined, milestone |-> Undefined],
    [title |-> "B?", status |-> "not-a-real-status", milestone |-> Undefined],
    [title |-> "A", status |-> "Done", milestone |-> "m-0"],
    [title |-> "B?", status |-> Undefined, milestone |-> "m-0"],
    [title |-> "A", status |-> "Backlog", milestone |-> "M-0"] }

\* the ids createTask scans: the index once lazily initialized, else the task map
ExistingIdNumbers ==
  {n \in {ParseIdDigits(id) : id \in (IF lazyInitialized THEN DOMAIN taskIndex
                                      ELSE DOMAIN tasks)} : n # -1}

\* createTask: nextId
NextTaskIdReserving ==
  LET held == {ParseIdDigits(pending[c].task.id) :
                 c \in {d \in Callers : pending[d].pc = "writeFile"}}
      known == ExistingIdNumbers \cup held
  IN IF known # {} THEN SetMax(known) + 1 ELSE 1
NextTaskIdNoIncrement ==
  IF ExistingIdNumbers # {} THEN SetMax(ExistingIdNumbers) ELSE 1
NextTaskId ==
  IF ExistingIdNumbers # {} THEN SetMax(ExistingIdNumbers) + 1 ELSE 1

\* createTask is not explored beyond MaxTaskNum ids above the number the
\* largest dotted id on disk is read as
TaskNumLimit ==
  MaxTaskNum + SetMax({0} \cup {ParseIdDigits(p.id) : p \in {q \in DOMAIN taskFiles : Len(q.id) > 1}})

\* createTask: validate and normalize status
NormalizeStatusUnchecked(inputStatus) ==
  IF Truthy(inputStatus) THEN inputStatus ELSE config.defaultStatus
NormalizeStatus(inputStatus) ==
  LET status == IF Truthy(inputStatus) THEN inputStatus ELSE config.defaultStatus
  IN IF status \in SeqToSet(config.statuses) THEN status ELSE config.defaultStatus

\* Core.createTask(input)
CreateTask ==
  /\ CanCall
  /\ calls' = calls + 1
  /\ UNCHANGED pending
  /\ \E input \in CreateTaskInputs :
       IF ~IsInitialized
       THEN /\ last' = Call("createTask", input, NotInitialized, {})
            /\ UNCHANGED <<disk, store>>
       ELSE LET taskId == <<NextTaskId>>
                filepath == TaskFilePath("tasks", taskId, input.title)
                task == [id |-> taskId, title |-> input.title,
                         status |-> NormalizeStatus(input.status),
                         milestone |-> input.milestone, source |-> "local",
                         filePath |-> filepath]
                sync == IF Truthy(input.milestone)
                        THEN addTaskToMilestone(milestoneFiles, taskId, input.milestone)
                        ELSE [files |-> milestoneFiles, io |-> {}]
            IN /\ NextTaskId <= TaskNumLimit
               /\ taskFiles' = Put(taskFiles, DiskPath(filepath), serializeTaskMarkdown(task))
               /\ tasks' = Put(tasks, taskId, task)
               /\ taskIndex' = IF lazyInitialized
                               THEN Put(taskIndex, taskId,
                                        [id |-> taskId, filePath |-> RelPath(filepath),
                                         title |-> task.title, source |-> "tasks"])
                               ELSE taskIndex
               /\ milestoneFiles' = sync.files
               /\ last' = Call("createTask", input, TaskResult(task),
                               {Io("createDir", "tasks"), Io("writeFile", "tasks")}
                                 \cup sync.io)
               /\ UNCHANGED <<configFile, rootHasCompleted, config, initialized,
                              lazyInitialized>>

\* the inputs updateTask is called with: undefined leaves a field alone, null
\* clears the milestone
NoChange == [title |-> Undefined, status |-> Undefined, milestone |-> Undefined]
UpdateTaskInputs ==
  { [NoChange EXCEPT !.milestone = Null],
    [NoChange EXCEPT !.milestone = "m-0"],
    [NoChange EXCEPT !.milestone = "M-0"],
    [NoChange EXCEPT !.milestone = " m-0 "],
    [NoChange EXCEPT !.milestone = "m-1"],
    [NoChange EXCEPT !.title = "B?", !.status = "Done"] }

\* updateTask: oldMilestone and newMilestone differ
milestoneChangedRaw(oldMilestone, newMilestone) ==
  milestoneKeyRaw(oldMilestone) # milestoneKeyRaw(newMilestone)
milestoneChanged(oldMilestone, newMilestone) ==
  milestoneKey(oldMilestone) # milestoneKey(newMilestone)

\* updateTask: const existing = this.tasks.get(id)
getExistingLoading(id) ==
  LET r == loadTask(tasks, id)
  IN IF r.result.kind = "task" THEN [found |-> TRUE, task |-> r.result.task, io |-> r.io]
     ELSE [found |-> FALSE, io |-> r.io]
getExisting(id) ==
  IF id \in DOMAIN tasks THEN [found |-> TRUE, task |-> tasks[id], io |-> {}]
  ELSE [found |-> FALSE, io |-> {}]

\* Core.updateTask(id, input)
UpdateTask ==
  /\ CanCall
  /\ calls' = calls + 1
  /\ UNCHANGED pending
  /\ \E id \in CallIds, input \in UpdateTaskInputs :
       LET arg == [id |-> id, input |-> input]
       IN IF ~IsInitialized
          THEN /\ last' = Call("updateTask", arg, NotInitialized, {})
               /\ UNCHANGED <<disk, store>>
          ELSE IF ~getExisting(id).found
          THEN /\ last' = Call("updateTask", arg, NullResult, getExisting(id).io)
               /\ UNCHANGED <<disk, store>>
          ELSE LET existing == getExisting(id).task
                   oldMilestone == existing.milestone
                   newMilestone == IF input.milestone = Null THEN Undefined
                                   ELSE IF input.milestone # Undefined THEN input.milestone
                                   ELSE oldMilestone
                   filepath == TaskFilePath("tasks", id,
                                 IF input.title # Undefined THEN input.title
                                 ELSE existing.title)
                   updated == [existing EXCEPT
                                 !.title = IF input.title # Undefined THEN input.title ELSE @,
                                 !.status = IF input.status # Undefined THEN input.status ELSE @,
                                 !.milestone = newMilestone,
                                 !.filePath = filepath]
                   removed == IF milestoneChanged(oldMilestone, newMilestone)
                                 /\ Truthy(oldMilestone)
                              THEN removeTaskFromMilestone(milestoneFiles, id, oldMilestone)
                              ELSE [files |-> milestoneFiles, io |-> {}]
                   added == IF milestoneChanged(oldMilestone, newMilestone)
                               /\ Truthy(newMilestone)
                            THEN addTaskToMilestone(removed.files, id, newMilestone)
                            ELSE [files |-> removed.files, io |-> {}]
               IN /\ taskFiles' = Put(Remove(taskFiles, DiskPath(existing.filePath)),
                                      DiskPath(filepath), serializeTaskMarkdown(updated))
                  /\ tasks' = Put(tasks, id, updated)
                  /\ milestoneFiles' = added.files
                  /\ last' = Call("updateTask", arg, TaskResult(updated),
                                  getExisting(id).io
                                    \cup {DeleteFileIo(taskFiles, existing.filePath),
                                          Io("writeFile", "tasks")}
                                    \cup removed.io \cup added.io)
                  /\ UNCHANGED <<configFile, rootHasCompleted, config, initialized,
                                 taskIndex, lazyInitialized>>

\* Core.deleteTask(id)
DeleteTask ==
  /\ CanCall
  /\ calls' = calls + 1
  /\ UNCHANGED pending
  /\ \E id \in CallIds :
       LET arg == [id |-> id]
       IN IF ~IsInitialized
          THEN /\ last' = Call("deleteTask", arg, NotInitialized, {})
               /\ UNCHANGED <<disk, store>>
          ELSE IF id \notin DOMAIN tasks
          THEN /\ last' = Call("deleteTask", arg, BoolResult(FALSE), {})
               /\ UNCHANGED <<disk, store>>
          ELSE LET task == tasks[id]
                   removed == IF Truthy(task.milestone)
                              THEN removeTaskFromMilestone(milestoneFiles, id, task.milestone)
                              ELSE [files |-> milestoneFiles, io |-> {}]
               IN /\ milestoneFiles' = removed.files
                  /\ taskFiles' = Remove(taskFiles, DiskPath(task.filePath))
                  /\ tasks' = Remove(tasks, id)
                  /\ last' = Call("deleteTask", arg, BoolResult(TRUE),
                                  removed.io \cup {DeleteFileIo(taskFiles, task.filePath)})
                  /\ UNCHANGED <<configFile, rootHasCompleted, config, initialized,
                                 taskIndex, lazyInitialized>>

\* archiveTask and restoreTask: write the task under toDir, delete the old
\* file, flip source, update the index entry when there is one
MoveTaskKeepingOldFile(op, id, toDir, toSource, indexSource) ==
  LET task == tasks[id]
      newFilepath == TaskFilePath(toDir, id, task.title)
      moved == [task EXCEPT !.source = toSource, !.filePath = newFilepath]
  IN /\ taskFiles' = Put(taskFiles, DiskPath(newFilepath), serializeTaskMarkdown(moved))
     /\ tasks' = Put(tasks, id, moved)
     /\ taskIndex' = IF lazyInitialized /\ id \in DOMAIN taskIndex
                     THEN [taskIndex EXCEPT ![id].source = indexSource,
                                            ![id].filePath = newFilepath]
                     ELSE taskIndex
     /\ last' = Call(op, [id |-> id], TaskResult(moved),
                     {Io("createDir", toDir), Io("writeFile", toDir)})
     /\ UNCHANGED <<configFile, milestoneFiles, rootHasCompleted, config, initialized,
                    lazyInitialized>>
MoveTask(op, id, toDir, toSource, indexSource) ==
  LET task == tasks[id]
      newFilepath == TaskFilePath(toDir, id, task.title)
      moved == [task EXCEPT !.source = toSource, !.filePath = newFilepath]
  IN /\ taskFiles' = Put(Remove(taskFiles, DiskPath(task.filePath)),
                         DiskPath(newFilepath), serializeTaskMarkdown(moved))
     /\ tasks' = Put(tasks, id, moved)
     /\ taskIndex' = IF lazyInitialized /\ id \in DOMAIN taskIndex
                     THEN [taskIndex EXCEPT ![id].source = indexSource,
                                            ![id].filePath = newFilepath]
                     ELSE taskIndex
     /\ last' = Call(op, [id |-> id], TaskResult(moved),
                     {Io("createDir", toDir), DeleteFileIo(taskFiles, task.filePath),
                      Io("writeFile", toDir)})
     /\ UNCHANGED <<configFile, milestoneFiles, rootHasCompleted, config, initialized,
                    lazyInitialized>>

\* archiveTask: no cached task, or one already in completed
archiveTaskReturnsNullUnknownOnly(id) == id \notin DOMAIN tasks
archiveTaskReturnsNull(id) == id \notin DOMAIN tasks \/ tasks[id].source = "completed"

\* restoreTask: no cached task, or one not in completed
restoreTaskReturnsNull(id) == id \notin DOMAIN tasks \/ tasks[id].source # "completed"

\* Core.archiveTask(id)
ArchiveTask ==
  /\ CanCall
  /\ calls' = calls + 1
  /\ UNCHANGED pending
  /\ \E id \in CallIds :
       IF ~IsInitialized
       THEN /\ last' = Call("archiveTask", [id |-> id], NotInitialized, {})
            /\ UNCHANGED <<disk, store>>
       ELSE IF archiveTaskReturnsNull(id)
       THEN /\ last' = Call("archiveTask", [id |-> id], NullResult, {})
            /\ UNCHANGED <<disk, store>>
       ELSE MoveTask("archiveTask", id, "completed", "completed", "completed")

\* Core.restoreTask(id)
RestoreTask ==
  /\ CanCall
  /\ calls' = calls + 1
  /\ UNCHANGED pending
  /\ \E id \in CallIds :
       IF ~IsInitialized
       THEN /\ last' = Call("restoreTask", [id |-> id], NotInitialized, {})
            /\ UNCHANGED <<disk, store>>
       ELSE IF restoreTaskReturnsNull(id)
       THEN /\ last' = Call("restoreTask", [id |-> id], NullResult, {})
            /\ UNCHANGED <<disk, store>>
       ELSE MoveTask("restoreTask", id, "tasks", "local", "tasks")

Next ==
  \/ Initialize
  \/ InitializeLazy
  \/ LoadTask
  \/ LoadTasks
  \/ GetTask
  \/ CreateMilestone
  \/ CreateTask
  \/ UpdateTask
  \/ DeleteTask
  \/ ArchiveTask
  \/ RestoreTask

Spec == Init /\ [][Next]_vars

\* a task file is removed behind the store's back
ExternalDeleteFile ==
  /\ CanCall
  /\ calls' = calls + 1
  /\ UNCHANGED pending
  /\ \E p \in DOMAIN taskFiles :
       /\ taskFiles' = Remove(taskFiles, p)
       /\ last' = Call("external:deleteFile", [path |-> p], Void, {})
  /\ UNCHANGED <<configFile, milestoneFiles, rootHasCompleted, store>>

NextExt ==
  \/ Next
  \/ ExternalDeleteFile

\* the store with external changes to the task files
SpecExt == Init /\ [][NextExt]_vars

\* an empty project, initialized once (eagerly or lazily), then createTask only
InitCreate == Init /\ taskFiles = EmptyMap

NextCreate ==
  \/ ~IsInitialized /\ Initialize
  \/ ~IsInitialized /\ InitializeLazy
  \/ IsInitialized /\ CreateTask

SpecCreate == InitCreate /\ [][NextCreate]_vars

NextMilestones ==
  \/ Initialize
  \/ InitializeLazy
  \/ LoadTask
  \/ CreateMilestone
  \/ DeleteMilestone

\* the store with milestones created and deleted
SpecMilestones == Init /\ [][NextMilestones]_vars

\* a project that starts without milestone files: every milestone file is
\* one createMilestone wrote
InitNoMilestone == Init /\ milestoneFiles = EmptyMap

SpecMilestoneIds == InitNoMilestone /\ [][NextMilestones]_vars

\* a task and its subtask 1.1
DottedTree ==
  [taskFiles |->
     ([dir |-> "tasks", id |-> <<1>>, name |-> "A"] :> TaskFileContent("To Do", Undefined, "A"))
     @@ ([dir |-> "tasks", id |-> <<1, 1>>, name |-> "B"] :> TaskFileContent("To Do", Undefined, "B?")),
   milestoneFiles |-> EmptyMap]

\* a project with or without a dotted id
InitDotted ==
  /\ \E p \in {DottedTree, SmallTree, EmptyTree} :
       /\ taskFiles = p.taskFiles
       /\ milestoneFiles = p.milestoneFiles
  /\ configFile = StdConfig
  /\ rootHasCompleted = FALSE
  /\ config = NoConfig
  /\ tasks = EmptyMap
  /\ initialized = FALSE
  /\ taskIndex = EmptyMap
  /\ lazyInitialized = FALSE
  /\ last = Call("new", NoArg, Void, {})
  /\ calls = 0
  /\ pending = NoPending

NextDotted ==
  \/ Initialize
  \/ InitializeLazy
  \/ CreateTask
  \/ DeleteTask

SpecDotted == InitDotted /\ [][NextDotted]_vars

\* ------------------------------------------------------------------ updateTask: lists

\* lists are explored up to this length
MaxListLen == 2

ListItems == {"a", "b"}

Lists == UNION {[1..n -> ListItems] : n \in 0..MaxListLen}

\* an optional field of the input: << >> for undefined, <<v>> for the value v
NotSupplied == << >>
Supplied(v) == <<v>>
IsSupplied(o) == Len(o) = 1
Optional(S) == {NotSupplied} \cup {Supplied(v) : v \in S}

\* [...new Set(list)]: the first occurrence of each element, in order
RECURSIVE Dedup(_)
Dedup(list) ==
  IF list = << >> THEN << >>
  ELSE LET init == Dedup(SubSeq(list, 1, Len(list) - 1))
           x == list[Len(list)]
       IN IF x \in SeqToSet(init) THEN init ELSE Append(init, x)

\* list.filter((x) => !removed.includes(x))
Without(list, removed) == SelectSeq(list, LAMBDA x : x \notin SeqToSet(removed))

\* updateTask: the add and remove operations on a list
AddRemove(list, input) ==
  LET added == IF IsSupplied(input.add) THEN Dedup(list \o input.add[1]) ELSE list
  IN IF IsSupplied(input.remove) THEN Without(added, input.remove[1]) ELSE added

\* updateTask: updated.labels
updateLabels(existing, input) ==
  IF IsSupplied(input.replace) THEN input.replace[1]
  ELSE AddRemove(existing[1], input)

\* updateTask: updated.dependencies
updateDependencies(existing, input) ==
  AddRemove(IF IsSupplied(input.replace) THEN input.replace[1] ELSE existing[1], input)

\* updateTask: updated.references; the existing task may have none
updateReferences(existing, input) ==
  AddRemove(IF IsSupplied(input.replace) THEN input.replace[1]
            ELSE IF IsSupplied(existing) THEN existing[1] ELSE << >>, input)

ListInputs == [replace : Optional(Lists), add : Optional(Lists), remove : Optional(Lists)]

\* updateTask applied to one list field of a cached task
UpdateTaskLists ==
  /\ last.op = "new"
  /\ \E input \in ListInputs :
       \/ \E existing \in Lists :
            last' = Call("updateTask", [field |-> "labels", existing |-> Supplied(existing),
                                        input |-> input],
                         updateLabels(Supplied(existing), input), {})
       \/ \E existing \in Lists :
            last' = Call("updateTask", [field |-> "dependencies",
                                        existing |-> Supplied(existing), input |-> input],
                         updateDependencies(Supplied(existing), input), {})
       \/ \E existing \in Optional(Lists) :
            last' = Call("updateTask", [field |-> "references", existing |-> existing,
                                        input |-> input],
                         updateReferences(existing, input), {})
  /\ UNCHANGED <<disk, store, calls, pending>>

InitLists == Init /\ configFile = StdConfig /\ taskFiles = EmptyMap

\* updateTask's list handling, applied once to every existing list and input
SpecLists == InitLists /\ [][UpdateTaskLists]_vars

\* ------------------------------------------------------------------ pagination

\* the task map is explored up to this many tasks, pages up to this limit
MaxBucket == 5
MaxLimit == 2

\* a.title.localeCompare(b.title) <= 0, for the titles explored
TitleRank(title) == CASE title = "A" -> 1 [] title = "B?" -> 2 [] OTHER -> 3
TitleLessEq(a, b) == TitleRank(a.title) <= TitleRank(b.title)

\* Array.prototype.sort with the title comparator: stable
RECURSIVE sortTasksByTitle(_)
sortTasksByTitle(list) ==
  IF list = << >> THEN << >>
  ELSE LET init == sortTasksByTitle(SubSeq(list, 1, Len(list) - 1))
           x == list[Len(list)]
           before == SelectSeq(init, LAMBDA y : TitleLessEq(y, x))
           after == SelectSeq(init, LAMBDA y : ~TitleLessEq(y, x))
       IN before \o <<x>> \o after

\* tasks.slice(start, end)
SliceInclusive(list, start, end) ==
  SubSeq(list, start + 1, IF end + 1 < Len(list) THEN end + 1 ELSE Len(list))
Slice(list, start, end) ==
  SubSeq(list, start + 1, IF end < Len(list) THEN end ELSE Len(list))

\* Core.loadMoreForStatus(status, currentOffset, {limit}) over the values of
\* the task map, in insertion order
loadMoreForStatus(values, status, currentOffset, limit) ==
  LET sorted == sortTasksByTitle(SelectSeq(values, LAMBDA t : t.status = status))
      total == Len(sorted)
  IN [items |-> Slice(sorted, currentOffset, currentOffset + limit),
      total |-> total,
      hasMore |-> currentOffset + limit < total,
      offset |-> currentOffset,
      limit |-> limit]

\* the values of a task map: tasks 1..n, each with a title and a status
TaskValues ==
  UNION {[1..n -> [title : {"A", "B?"}, status : {"To Do", "Done"}]] : n \in 0..MaxBucket}
WithIds(list) == [i \in 1..Len(list) |-> [id |-> <<i>>, title |-> list[i].title,
                                         status |-> list[i].status]]

\* loadMoreForStatus is called for a page of a task map
LoadMoreForStatus ==
  /\ last.op = "new"
  /\ \E list \in TaskValues, status \in {"To Do", "Done"}, limit \in 1..MaxLimit,
        page \in 0..MaxBucket :
       LET values == WithIds(list)
       IN last' = Call("loadMoreForStatus",
                       [values |-> values, status |-> status,
                        currentOffset |-> page * limit, limit |-> limit],
                       loadMoreForStatus(values, status, page * limit, limit), {})
  /\ UNCHANGED <<disk, store, calls, pending>>

\* loadMoreForStatus applied once to every task map, status and page
SpecPages == InitLists /\ [][LoadMoreForStatus]_vars

\* ------------------------------------------------------------------ sorting

\* lists of up to this many tasks are sorted
MaxSortLen == 3

\* PRIORITY_ORDER, and 3 for a task without priority
PRIORITY_ORDER(priority) ==
  CASE priority = "high" -> 0 [] priority = "medium" -> 1 [] priority = "low" -> 2
PriorityNumber(task) == IF Truthy(task.priority) THEN PRIORITY_ORDER(task.priority) ELSE 3

\* b.createdDate.localeCompare(a.createdDate), for the dates explored
DateRank(date) == CASE date = "2024-01-01" -> 1 [] date = "2024-01-02" -> 2
LocaleCompareDates(b, a) ==
  IF DateRank(b) < DateRank(a) THEN 0 - 1 ELSE IF DateRank(b) > DateRank(a) THEN 1 ELSE 0

\* the comparator of sortTasks; ordinal is NotSupplied or Supplied(n)
compareTasks(a, b) ==
  IF IsSupplied(a.ordinal) /\ IsSupplied(b.ordinal) THEN a.ordinal[1] - b.ordinal[1]
  ELSE IF IsSupplied(a.ordinal) THEN 0 - 1
  ELSE IF IsSupplied(b.ordinal) THEN 1
  ELSE IF PriorityNumber(a) # PriorityNumber(b) THEN PriorityNumber(a) - PriorityNumber(b)
  ELSE LocaleCompareDates(b.createdDate, a.createdDate)

\* [...tasks].sort(comparator): stable
RECURSIVE sortTasks(_)
sortTasks(list) ==
  IF list = << >> THEN << >>
  ELSE LET init == sortTasks(SubSeq(list, 1, Len(list) - 1))
           x == list[Len(list)]
           before == SelectSeq(init, LAMBDA y : compareTasks(y, x) <= 0)
           after == SelectSeq(init, LAMBDA y : compareTasks(y, x) > 0)
       IN before \o <<x>> \o after

\* the tasks sorted: with the fields the comparator reads
Ordinals == {1, 2}
SortableTasks ==
  [ordinal : Optional(Ordinals), priority : {"high", "medium", "low", Undefined},
   createdDate : {"2024-01-01", "2024-01-02"}]
SortTask(ordinal, priority) ==
  [ordinal |-> ordinal, priority |-> priority, createdDate |-> "2024-01-01"]
\* A(ordinal=2), B(ordinal=1), C(no ordinal, high), D(no ordinal, low)
SortExample ==
  <<SortTask(Supplied(2), Undefined), SortTask(Supplied(1), Undefined),
    SortTask(NotSupplied, "high"), SortTask(NotSupplied, "low")>>
SortInputs == UNION {[1..n -> SortableTasks] : n \in 0..MaxSortLen} \cup {SortExample}

\* sortTasks is called with a task list
SortTasks ==
  /\ last.op = "new"
  /\ \E list \in SortInputs :
       last' = Call("sortTasks", [tasks |-> list], sortTasks(list), {})
  /\ UNCHANGED <<disk, store, calls, pending>>

\* sortTasks applied once to every list of SortInputs
SpecSort == InitLists /\ [][SortTasks]_vars

\* ------------------------------------------------------------------ grouping

\* lists of up to this many tasks are grouped
MaxGroupLen == 3

\* a Map<string, Task[]>: its entries in insertion order
MapHas(grouped, key) == \E i \in 1..Len(grouped) : grouped[i].key = key
MapGet(grouped, key) == grouped[CHOOSE i \in 1..Len(grouped) : grouped[i].key = key].value
MapSet(grouped, key, value) ==
  IF MapHas(grouped, key)
  THEN [i \in 1..Len(grouped) |->
          IF grouped[i].key = key THEN [key |-> key, value |-> value] ELSE grouped[i]]
  ELSE Append(grouped, [key |-> key, value |-> value])
MapKeys(grouped) == [i \in 1..Len(grouped) |-> grouped[i].key]

\* for (const status of statuses) grouped.set(status, [])
RECURSIVE InitGrouped(_)
InitGrouped(statuses) ==
  IF statuses = << >> THEN << >>
  ELSE MapSet(InitGrouped(SubSeq(statuses, 1, Len(statuses) - 1)),
              statuses[Len(statuses)], << >>)

\* the body of the loop over the tasks
PushTaskConfiguredOnly(grouped, task) ==
  IF MapHas(grouped, task.status)
  THEN MapSet(grouped, task.status, Append(MapGet(grouped, task.status), task))
  ELSE grouped
PushTask(grouped, task) ==
  IF MapHas(grouped, task.status)
  THEN MapSet(grouped, task.status, Append(MapGet(grouped, task.status), task))
  ELSE MapSet(grouped, task.status, <<task>>)

RECURSIVE PushTasks(_, _)
PushTasks(grouped, list) ==
  IF list = << >> THEN grouped
  ELSE PushTask(PushTasks(grouped, SubSeq(list, 1, Len(list) - 1)), list[Len(list)])

\* groupTasksByStatus(tasks, statuses): every bucket sorted by sortTasks
groupTasksByStatus(list, statuses) ==
  LET grouped == PushTasks(InitGrouped(statuses), list)
  IN [i \in 1..Len(grouped) |->
        [key |-> grouped[i].key, value |-> sortTasks(grouped[i].value)]]

\* the tasks grouped, the status lists they are grouped by
GroupableTasks ==
  [status : {"To Do", "Done", "Blocked"}, ordinal : Optional({1}),
   priority : {"high", Undefined}, createdDate : {"2024-01-01"}]
GroupInputs == UNION {[1..n -> GroupableTasks] : n \in 0..MaxGroupLen}
StatusLists == UNION {[1..n -> {"To Do", "Done"}] : n \in 0..2}

\* groupTasksByStatus is called with a task list and a status list
GroupTasksByStatus ==
  /\ last.op = "new"
  /\ \E list \in GroupInputs, statuses \in StatusLists :
       last' = Call("groupTasksByStatus", [tasks |-> list, statuses |-> statuses],
                    groupTasksByStatus(list, statuses), {})
  /\ UNCHANGED <<disk, store, calls, pending>>

\* groupTasksByStatus applied once to every task list and status list
SpecGroup == InitLists /\ [][GroupTasksByStatus]_vars

\* ------------------------------------------------------------------ status board

\* the second loop of getTasksByStatusPaginated: a page for every configured
\* status, sorted by title
RECURSIVE PaginateStatuses(_, _, _, _)
PaginateStatuses(allGrouped, statuses, offset, limit) ==
  IF statuses = << >> THEN << >>
  ELSE LET status == statuses[Len(statuses)]
           sorted == sortTasksByTitle(IF MapHas(allGrouped, status)
                                      THEN MapGet(allGrouped, status) ELSE << >>)
       IN MapSet(PaginateStatuses(allGrouped, SubSeq(statuses, 1, Len(statuses) - 1),
                                  offset, limit),
                 status,
                 [items |-> Slice(sorted, offset, offset + limit),
                  total |-> Len(sorted),
                  hasMore |-> offset + limit < Len(sorted),
                  offset |-> offset,
                  limit |-> limit])

\* Core.getTasksByStatusPaginated({limit, offset}) over the values of the task
\* map in insertion order
getTasksByStatusPaginated(values, statuses, offset, limit) ==
  [kind |-> "byStatus",
   byStatus |-> PaginateStatuses(PushTasks(InitGrouped(statuses), values), statuses,
                                 offset, limit),
   statuses |-> statuses]

\* Core.getTasksByStatusPaginated(pagination); the insertion order of the task
\* map is any order of its ids
GetTasksByStatusPaginated ==
  /\ CanCall
  /\ calls' = calls + 1
  /\ UNCHANGED pending
  /\ \E limit \in 1..MaxLimit, offset \in 0..1, order \in Perms(DOMAIN tasks) :
       LET arg == [limit |-> limit, offset |-> offset, order |-> order]
           values == [i \in 1..Len(order) |-> tasks[order[i]]]
       IN last' = IF ~IsInitialized
                  THEN Call("getTasksByStatusPaginated", arg, NotInitialized, {})
                  ELSE Call("getTasksByStatusPaginated", arg,
                            getTasksByStatusPaginated(values, config.statuses, offset, limit),
                            {})
  /\ UNCHANGED <<disk, store>>

NextBoard ==
  \/ ~IsInitialized /\ Initialize
  \/ ~IsInitialized /\ InitializeLazy
  \/ IsInitialized /\ CreateTask
  \/ GetTasksByStatusPaginated

\* a store whose tasks are created by createTask, queried by status
SpecBoard == InitCreate /\ [][NextBoard]_vars

\* ------------------------------------------------------------------ milestone summary

\* summaries of up to this many tasks are built
MaxSummaryLen == 3

NO_MILESTONE_KEY == "__none"

\* (status ?? "").toLowerCase() includes "done" or "complete", for the
\* statuses explored
isDoneStatus(status) == status \in {"Done", "DONE", "Undone", "Completed"}

\* Math.round(n / d * 100): the nearest integer, halves upwards
RoundPercentDown(n, d) == (100 * n) \div d
RoundPercent(n, d) == (200 * n + d) \div (2 * d)

\* the filter of createBucket
InBucketExact(task, milestoneId) ==
  IF Truthy(milestoneKey(milestoneId)) THEN task.milestone = milestoneId
  ELSE ~Truthy(milestoneKey(task.milestone))
InBucket(task, milestoneId) ==
  IF Truthy(milestoneKey(milestoneId))
  THEN milestoneKey(task.milestone) = milestoneKey(milestoneId)
  ELSE ~Truthy(milestoneKey(task.milestone))

\* counts: 0 for every configured status, then one more per task of the bucket
StatusCounts(bucketTasks, statuses) ==
  [st \in SeqToSet(statuses) \cup {bucketTasks[i].status : i \in 1..Len(bucketTasks)} |->
     Cardinality({i \in 1..Len(bucketTasks) : bucketTasks[i].status = st})]

\* createBucket(milestoneId, tasks, statuses, milestoneEntities, isNoMilestone)
createBucket(milestoneId, list, statuses, isNoMilestone) ==
  LET bucketTasks == SelectSeq(list, LAMBDA t : InBucket(t, milestoneId))
      doneCount == Len(SelectSeq(bucketTasks, LAMBDA t : isDoneStatus(t.status)))
  IN [key |-> IF Truthy(milestoneKey(milestoneId)) THEN milestoneKey(milestoneId)
              ELSE NO_MILESTONE_KEY,
      milestone |-> milestoneId,
      isNoMilestone |-> isNoMilestone,
      tasks |-> bucketTasks,
      statusCounts |-> StatusCounts(bucketTasks, statuses),
      total |-> Len(bucketTasks),
      doneCount |-> doneCount,
      progress |-> IF Len(bucketTasks) > 0 THEN RoundPercent(doneCount, Len(bucketTasks))
                   ELSE 0]

\* addMilestone over the values, in order: trimmed, blank skipped, one per key
RECURSIVE AddMilestones(_)
AddMilestones(values) ==
  IF values = << >> THEN << >>
  ELSE LET merged == AddMilestones(SubSeq(values, 1, Len(values) - 1))
           normalized == normalizeMilestoneName(values[Len(values)])
       IN IF ~Truthy(normalized) THEN merged
          ELSE IF \E i \in 1..Len(merged) : milestoneKey(merged[i]) = milestoneKey(normalized)
               THEN merged
          ELSE Append(merged, normalized)

\* collectMilestoneIds(tasks, milestoneEntities): entities first, then tasks
collectMilestoneIds(list, milestoneEntities) ==
  AddMilestones([i \in 1..Len(milestoneEntities) |-> milestoneEntities[i].id]
                \o [i \in 1..Len(list) |->
                      IF list[i].milestone = Undefined THEN "" ELSE list[i].milestone])

\* buildMilestoneBuckets(tasks, milestoneEntities, statuses)
buildMilestoneBuckets(list, milestoneEntities, statuses) ==
  LET allMilestoneIds == collectMilestoneIds(list, milestoneEntities)
  IN <<createBucket(Undefined, list, statuses, TRUE)>>
       \o [i \in 1..Len(allMilestoneIds) |->
             createBucket(allMilestoneIds[i], list, statuses, FALSE)]

\* the tasks summarised: first with many spellings of the milestone, then
\* with many statuses
SummaryTaskLists ==
  UNION {[1..n -> [milestone : {Undefined, " ", "m-0", " m-0 ", "M-0", "m-1"},
                   status : {"To Do", "Done"}]] : n \in 0..MaxSummaryLen}
  \cup UNION {[1..n -> [milestone : {Undefined, "m-0"},
                        status : {"To Do", "Done", "DONE", "Undone", "Completed", "Blocked"}]] :
              n \in 0..MaxSummaryLen}
WithTaskIds(list) == [i \in 1..Len(list) |-> [id |-> <<i>>, milestone |-> list[i].milestone,
                                             status |-> list[i].status]]
SummaryEntities ==
  {<< >>, <<[id |-> "m-1"]>>, <<[id |-> "M-0"], [id |-> "m-0"]>>}

\* buildMilestoneBuckets is called with a task list, entities and statuses
BuildMilestoneBuckets ==
  /\ last.op = "new"
  /\ \E list \in SummaryTaskLists, entities \in SummaryEntities,
        statuses \in {<< >>, <<"To Do", "In Progress", "Done">>} :
       last' = Call("buildMilestoneBuckets",
                    [tasks |-> WithTaskIds(list), milestoneEntities |-> entities,
                     statuses |-> statuses],
                    buildMilestoneBuckets(WithTaskIds(list), entities, statuses), {})
  /\ UNCHANGED <<disk, store, calls, pending>>

\* buildMilestoneBuckets applied once to every input
SpecSummary == InitLists /\ [][BuildMilestoneBuckets]_vars

\* ------------------------------------------------------------------ markdown body

\* the lines of a task file below the frontmatter
H1(text) == [kind |-> "h1", text |-> text, checked |-> FALSE]
H2(text) == [kind |-> "h2", text |-> text, checked |-> FALSE]
TextLine(text) == [kind |-> "text", text |-> text, checked |-> FALSE]
Checkbox(checked, text) == [kind |-> "checkbox", text |-> text, checked |-> checked]
Blank == [kind |-> "blank", text |-> "", checked |-> FALSE]

\* serializeTaskMarkdown: title, description, acceptance criteria,
\* implementation plan, implementation notes
serializeBody(task) ==
  <<H1(task.title), Blank>>
    \o (IF task.description # << >> THEN task.description \o <<Blank>> ELSE << >>)
    \o (IF task.acceptanceCriteriaItems # << >>
        THEN <<H2("Acceptance Criteria"), Blank>>
               \o [i \in 1..Len(task.acceptanceCriteriaItems) |->
                     Checkbox(task.acceptanceCriteriaItems[i].checked,
                              task.acceptanceCriteriaItems[i].text)]
               \o <<Blank>>
        ELSE << >>)
    \o (IF Truthy(task.implementationPlan)
        THEN <<H2("Implementation Plan"), Blank, TextLine(task.implementationPlan), Blank>>
        ELSE << >>)
    \o (IF Truthy(task.implementationNotes)
        THEN <<H2("Implementation Notes"), Blank, TextLine(task.implementationNotes), Blank>>
        ELSE << >>)

\* body.replace(regex, ""): the first line the regex matches is emptied. Each
\* regex of extractDescription matches within one line, its lazy [\s\S]*?
\* ending at the first $ of the multiline mode, the end of the heading line
RECURSIVE ReplaceFirstLine(_, _)
ReplaceFirstLine(lines, line) ==
  IF lines = << >> THEN << >>
  ELSE IF Head(lines) = line THEN <<Blank>> \o Tail(lines)
  ELSE <<Head(lines)>> \o ReplaceFirstLine(Tail(lines), line)

\* String.prototype.trim on the lines
RECURSIVE TrimLines(_)
TrimLines(lines) ==
  IF lines = << >> THEN << >>
  ELSE IF Head(lines) = Blank THEN TrimLines(Tail(lines))
  ELSE IF lines[Len(lines)] = Blank THEN TrimLines(SubSeq(lines, 1, Len(lines) - 1))
  ELSE lines

\* extractDescription(content, title)
extractDescription(body, title) ==
  LET noTitle == IF title # "" THEN ReplaceFirstLine(body, H1(title)) ELSE body
      noCriteria == ReplaceFirstLine(noTitle, H2("Acceptance Criteria"))
      noPlan == ReplaceFirstLine(noCriteria, H2("Implementation Plan"))
      noNotes == ReplaceFirstLine(noPlan, H2("Implementation Notes"))
  IN TrimLines(noNotes)

\* parseAcceptanceCriteria(content): every checkbox line, numbered from 1
parseAcceptanceCriteria(body) ==
  LET boxes == SelectSeq(body, LAMBDA l : l.kind = "checkbox")
  IN [i \in 1..Len(boxes) |-> [index |-> i, text |-> boxes[i].text,
                               checked |-> boxes[i].checked]]

\* the Task objects the round trip is made with: structured fields only
RoundTripTasks ==
  [id : {<<1>>}, title : {"A", "B?"}, status : {"To Do", "Done"},
   milestone : {Undefined, "m-0"},
   description : {<< >>, <<TextLine("d")>>},
   acceptanceCriteriaItems :
     {<< >>, <<[index |-> 1, text |-> "c", checked |-> FALSE]>>,
      <<[index |-> 1, text |-> "c", checked |-> TRUE],
        [index |-> 2, text |-> "e", checked |-> FALSE]>>},
   implementationPlan : {Undefined, "p"},
   implementationNotes : {Undefined, "n"}]

\* parseTaskMarkdown(serializeTaskMarkdown(task), path), path the file of the task
RoundTrip ==
  /\ last.op = "new"
  /\ \E task \in RoundTripTasks :
       LET path == TaskFilePath("tasks", task.id, task.title)
           head == parseTaskMarkdown(serializeTaskMarkdown(task), path)
           body == serializeBody(task)
       IN last' = Call("parseTaskMarkdown", [task |-> task],
                       [id |-> head.id, title |-> head.title, status |-> head.status,
                        milestone |-> head.milestone,
                        description |-> extractDescription(body, head.title),
                        acceptanceCriteriaItems |-> parseAcceptanceCriteria(body)], {})
  /\ UNCHANGED <<disk, store, calls, pending>>

\* the round trip applied once to every task of RoundTripTasks
SpecRoundTrip == InitLists /\ [][RoundTrip]_vars

\* ------------------------------------------------------------------ adapter failures

\* what a call rejects with when an adapter call it does not catch throws
AdapterFailure == ErrorResult("adapter failure")

\* loadTasksFromDirectory when readFile or parseTaskMarkdown throws for the
\* files in bad: the catch inside the loop skips them
RECURSIVE loadTasksFromDirectoryAborting(_, _, _, _)
loadTasksFromDirectoryAborting(ts, listing, source, bad) ==
  IF listing = << >> \/ Head(listing) \in bad THEN ts
  ELSE loadTasksFromDirectoryAborting(
         loadTasksFromDirectory(ts, <<Head(listing)>>, source), Tail(listing), source, bad)
RECURSIVE loadTasksFromDirectorySkipping(_, _, _, _)
loadTasksFromDirectorySkipping(ts, listing, source, bad) ==
  IF listing = << >> THEN ts
  ELSE IF Head(listing) \in bad
  THEN loadTasksFromDirectorySkipping(ts, Tail(listing), source, bad)
  ELSE loadTasksFromDirectorySkipping(
         loadTasksFromDirectory(ts, <<Head(listing)>>, source), Tail(listing), source, bad)

\* the task files initialize() lists
ListedFiles == FilesIn("tasks") \cup FilesIn("completed")

\* Core.initialize() while the adapter fails: readFile on some task files, or
\* exists / readDir on the completed directory
InitializeFailing ==
  /\ CanCall
  /\ calls' = calls + 1
  /\ UNCHANGED pending
  /\ ~initialized /\ configFile.present
  /\ UNCHANGED <<disk, taskIndex, lazyInitialized>>
  /\ config' = parseBacklogConfig(configFile)
  /\ \E al \in Perms(FilesIn("tasks")), cl \in Perms(FilesIn("completed")) :
       \/ \E bad \in (SUBSET ListedFiles) \ {{}} :
            /\ tasks' = loadTasksFromDirectorySkipping(
                          loadTasksFromDirectorySkipping(tasks, al, "local", bad),
                          cl, "completed", bad)
            /\ initialized' = TRUE
            /\ last' = Call("initialize", [failing |-> "readFile", files |-> bad],
                            Void, InitializeIo)
       \/ \E f \in {"exists", "readDir"} :
            /\ f = "readDir" => FilesIn("completed") # {}
            /\ tasks' = loadTasksFromDirectory(tasks, al, "local")
            /\ initialized' = FALSE
            /\ last' = Call("initialize", [failing |-> f, files |-> FilesIn("completed")],
                            AdapterFailure, InitializeIo \ {Io("readFile", "completed")})

\* Core.loadTask(id) while readFile throws for the indexed file, which exists
LoadTaskFailing ==
  /\ CanCall
  /\ calls' = calls + 1
  /\ UNCHANGED pending
  /\ \E id \in DOMAIN taskIndex \ DOMAIN tasks :
       /\ DiskPath(taskIndex[id].filePath) \in DOMAIN taskFiles
       /\ last' = Call("loadTask", [id |-> id, failing |-> "readFile"], UndefinedResult,
                       {Io("readFile", taskIndex[id].filePath.dir)})
  /\ UNCHANGED <<disk, store>>

\* createTask, updateTask: await writeFile, then this.tasks.set(id, task)
CacheBeforeWrite(ts, task, written) == Put(ts, task.id, task)
CacheAfterWrite(ts, task, written) == IF written THEN Put(ts, task.id, task) ELSE ts

\* Core.createTask(input) while writeFile throws
CreateTaskFailing ==
  /\ CanCall
  /\ calls' = calls + 1
  /\ UNCHANGED pending
  /\ IsInitialized
  /\ NextTaskId <= MaxTaskNum
  /\ \E input \in CreateTaskInputs :
       LET taskId == <<NextTaskId>>
           task == [id |-> taskId, title |-> input.title,
                    status |-> NormalizeStatus(input.status),
                    milestone |-> input.milestone, source |-> "local",
                    filePath |-> Undefined]
       IN /\ tasks' = CacheAfterWrite(tasks, task, FALSE)
          /\ last' = Call("createTask", [input |-> input, failing |-> "writeFile"],
                          AdapterFailure, {Io("createDir", "tasks"), Io("writeFile", "tasks")})
  /\ UNCHANGED <<disk, config, initialized, taskIndex, lazyInitialized>>

\* Core.updateTask(id, input) while writeFile throws: the old file is deleted
\* before the write is attempted
UpdateTaskFailing ==
  /\ CanCall
  /\ calls' = calls + 1
  /\ UNCHANGED pending
  /\ IsInitialized
  /\ \E id \in DOMAIN tasks, input \in UpdateTaskInputs :
       LET existing == tasks[id]
           updated == [existing EXCEPT
                         !.title = IF input.title # Undefined THEN input.title ELSE @,
                         !.status = IF input.status # Undefined THEN input.status ELSE @,
                         !.milestone = IF input.milestone = Null THEN Undefined
                                       ELSE IF input.milestone # Undefined
                                       THEN input.milestone ELSE @]
       IN /\ taskFiles' = Remove(taskFiles, DiskPath(existing.filePath))
          /\ tasks' = CacheAfterWrite(tasks, updated, FALSE)
          /\ last' = Call("updateTask", [id |-> id, input |-> input, failing |-> "writeFile"],
                          AdapterFailure,
                          {DeleteFileIo(taskFiles, existing.filePath), Io("writeFile", "tasks")})
  /\ UNCHANGED <<configFile, milestoneFiles, rootHasCompleted, config, initialized,
                 taskIndex, lazyInitialized>>

\* archiveTask, restoreTask while writeFile throws: createDir and the deletion of
\* the old file have happened, the cache and the index are not reached
MoveTaskFailing(op, id, toDir) ==
  LET task == tasks[id]
  IN /\ taskFiles' = Remove(taskFiles, DiskPath(task.filePath))
     /\ last' = Call(op, [id |-> id, failing |-> "writeFile"], AdapterFailure,
                     {Io("createDir", toDir), DeleteFileIo(taskFiles, task.filePath),
                      Io("writeFile", toDir)})
     /\ UNCHANGED <<configFile, milestoneFiles, rootHasCompleted, store>>

\* Core.archiveTask(id) while writeFile throws
ArchiveTaskFailing ==
  /\ CanCall
  /\ calls' = calls + 1
  /\ UNCHANGED pending
  /\ IsInitialized
  /\ \E id \in CallIds :
       /\ ~archiveTaskReturnsNull(id)
       /\ MoveTaskFailing("archiveTask", id, "completed")

\* Core.restoreTask(id) while writeFile throws
RestoreTaskFailing ==
  /\ CanCall
  /\ calls' = calls + 1
  /\ UNCHANGED pending
  /\ IsInitialized
  /\ \E id \in CallIds :
       /\ ~restoreTaskReturnsNull(id)
       /\ MoveTaskFailing("restoreTask", id, "tasks")

\* Core.reload(): this.tasks.clear(), initialized = false, await initialize();
\* the index and lazyInitialized are left alone
Reload ==
  /\ CanCall
  /\ calls' = calls + 1
  /\ UNCHANGED pending
  /\ UNCHANGED <<disk, taskIndex, lazyInitialized>>
  /\ IF ~configFile.present
     THEN /\ tasks' = EmptyMap
          /\ initialized' = FALSE
          /\ UNCHANGED config
          /\ last' = Call("reload", NoArg, NotAProject, {Io("exists", "config")})
     ELSE \E al \in Perms(FilesIn("tasks")), cl \in Perms(FilesIn("completed")) :
          /\ config' = parseBacklogConfig(configFile)
          /\ tasks' = EagerTasks(EmptyMap, al, cl)
          /\ initialized' = TRUE
          /\ last' = Call("reload", [listing |-> al \o cl], Void, InitializeIo)

NextFresh ==
  \/ Initialize
  \/ InitializeLazy
  \/ Reload
  \/ LoadTask
  \/ CreateTask
  \/ DeleteTask
  \/ UpdateTaskFailing

\* both initializations, reload, lazy loads, and a writeFile that may throw
SpecFresh == Init /\ [][NextFresh]_vars

NextWriteFailing ==
  \/ Initialize
  \/ ArchiveTask
  \/ UpdateTaskFailing
  \/ ArchiveTaskFailing
  \/ RestoreTaskFailing

\* the store over an adapter whose writeFile may throw during a mutation
SpecWriteFailing == Init /\ [][NextWriteFailing]_vars

NextFailing ==
  \/ Initialize
  \/ InitializeLazy
  \/ LoadTask
  \/ CreateTask
  \/ InitializeFailing
  \/ LoadTaskFailing
  \/ CreateTaskFailing
  \/ UpdateTaskFailing

\* the store over an adapter whose calls may throw
SpecFailing == Init /\ [][NextFailing]_vars

\* two files that resolve to id 1, one active and one completed
DuplicateIdTree ==
  [taskFiles |->
     ([dir |-> "tasks", id |-> <<1>>, name |-> "A"] :> TaskFileContent("To Do", Undefined, "A"))
     @@ ([dir |-> "completed", id |-> <<1>>, name |-> "B"] :> TaskFileContent("Done", Undefined, "B?")),
   milestoneFiles |-> EmptyMap]

\* an active task, and a task file in a sub-directory of tasks/
NestedTree ==
  [taskFiles |->
     ([dir |-> "tasks", id |-> <<1>>, name |-> "A"] :> TaskFileContent("To Do", " m-0 ", "A"))
     @@ ([dir |-> "tasks/sub", id |-> <<2>>, name |-> "B"] :> TaskFileContent(" ", Undefined, "B?")),
   milestoneFiles |-> EmptyMap]

\* a project whose tree does not change, under any project root, read lazily
InitEquiv ==
  /\ \E p \in {SmallTree, DuplicateIdTree, NestedTree} :
       /\ taskFiles = p.taskFiles
       /\ milestoneFiles = p.milestoneFiles
  /\ configFile = StdConfig
  /\ rootHasCompleted \in BOOLEAN
  /\ config = NoConfig
  /\ tasks = EmptyMap
  /\ initialized = FALSE
  /\ taskIndex = EmptyMap
  /\ lazyInitialized = FALSE
  /\ last = Call("new", NoArg, Void, {})
  /\ calls = 0
  /\ pending = NoPending

NextEquiv ==
  \/ InitializeLazy
  \/ LoadTask
  \/ LoadTasks

SpecEquiv == InitEquiv /\ [][NextEquiv]_vars

\* three files that resolve to id 1, two of them active, and a task of id 2
CollidingTree ==
  [taskFiles |->
     ([dir |-> "tasks", id |-> <<1>>, name |-> "A"] :> TaskFileContent("To Do", Undefined, "A"))
     @@ ([dir |-> "tasks", id |-> <<1>>, name |-> "B"] :> TaskFileContent("Done", Undefined, "B?"))
     @@ ([dir |-> "completed", id |-> <<1>>, name |-> "C"] :> TaskFileContent("Done", Undefined, "C"))
     @@ ([dir |-> "tasks", id |-> <<2>>, name |-> "D"] :> TaskFileContent("To Do", Undefined, "D")),
   milestoneFiles |-> EmptyMap]

\* two active files that resolve to id 1
ActiveCollidingTree ==
  [taskFiles |->
     ([dir |-> "tasks", id |-> <<1>>, name |-> "A"] :> TaskFileContent("To Do", Undefined, "A"))
     @@ ([dir |-> "tasks", id |-> <<1>>, name |-> "B"] :> TaskFileContent("Done", Undefined, "B?")),
   milestoneFiles |-> EmptyMap]

\* a project where several files resolve to one id, read by initialize()
InitColliding ==
  /\ \E p \in {DuplicateIdTree, CollidingTree, ActiveCollidingTree} :
       /\ taskFiles = p.taskFiles
       /\ milestoneFiles = p.milestoneFiles
  /\ configFile = StdConfig
  /\ rootHasCompleted = FALSE
  /\ config = NoConfig
  /\ tasks = EmptyMap
  /\ initialized = FALSE
  /\ taskIndex = EmptyMap
  /\ lazyInitialized = FALSE
  /\ last = Call("new", NoArg, Void, {})
  /\ calls = 0
  /\ pending = NoPending

NextColliding ==
  \/ Initialize
  \/ GetTask
  \/ UpdateTask
  \/ DeleteTask

SpecColliding == InitColliding /\ [][NextColliding]_vars

\* ------------------------------------------------------------------ calls not awaited

\* the caller may issue its call: each caller issues one
CanStart(c) == CanCall /\ pending[c].pc = "idle"

\* loadTask(id) up to its first await: answered by the cache, unknown to the
\* index, or suspended in fs.readFile
loadTaskBegin(id) ==
  IF id \in DOMAIN tasks
  THEN [state |-> "settled", result |-> TaskResult(tasks[id]), read |-> FALSE,
        indexEntry |-> Null]
  ELSE IF id \notin DOMAIN taskIndex
  THEN [state |-> "settled", result |-> UndefinedResult, read |-> FALSE,
        indexEntry |-> Null]
  ELSE [state |-> "readFile", result |-> UndefinedResult, read |-> TRUE,
        indexEntry |-> taskIndex[id]]

LoadTasksInputs == Perms(AllIds \cup {UnknownId})

\* loadTasks(ids) is called: ids.map starts every loadTask before any
\* readFile completes
LoadTasksCall ==
  /\ \E c \in Callers, ids \in LoadTasksInputs :
       /\ CanStart(c)
       /\ pending' = [pending EXCEPT ![c] =
                        [pc |-> "Promise.all", op |-> "loadTasks", arg |-> [ids |-> ids],
                         loads |-> [i \in 1..Len(ids) |-> loadTaskBegin(ids[i])],
                         order |-> << >>]]
  /\ calls' = calls + 1
  /\ UNCHANGED <<disk, store, last>>

\* one fs.readFile of the call settles, in any order, and its loadTask resumes
LoadTaskResume ==
  /\ \E c \in Callers, ok \in BOOLEAN :
       /\ pending[c].pc = "Promise.all"
       /\ \E i \in 1..Len(pending[c].loads) :
            LET load == pending[c].loads[i]
                path == DiskPath(load.indexEntry.filePath)
                read == ok /\ path \in DOMAIN taskFiles
                task == [parseTaskMarkdown(taskFiles[path], load.indexEntry.filePath)
                           EXCEPT !.source = IF load.indexEntry.source = "completed"
                                             THEN "completed" ELSE "local"]
            IN /\ load.state = "readFile"
               /\ tasks' = IF read THEN Put(tasks, task.id, task) ELSE tasks
               /\ pending' = [pending EXCEPT
                                ![c].loads[i] =
                                   [state |-> "settled",
                                    result |-> IF read THEN TaskResult(task)
                                               ELSE UndefinedResult,
                                    read |-> TRUE, indexEntry |-> load.indexEntry],
                                ![c].order = Append(@, i)]
  /\ UNCHANGED <<disk, config, initialized, taskIndex, lazyInitialized, last, calls>>

\* Promise.all(promises): the values of the promises
PromiseAllBySettlement(loads, order) ==
  LET early == SelectSeq([i \in 1..Len(loads) |-> i],
                         LAMBDA i : \A k \in 1..Len(order) : order[k] # i)
      settled == early \o order
  IN [k \in 1..Len(loads) |-> loads[settled[k]].result]
PromiseAll(loads, order) == [i \in 1..Len(loads) |-> loads[i].result]

\* tasks.filter((t) => t !== undefined)
RECURSIVE FilterTasks(_)
FilterTasks(results) ==
  IF results = << >> THEN << >>
  ELSE (IF Head(results).kind = "task" THEN <<Head(results).task>> ELSE << >>)
         \o FilterTasks(Tail(results))

\* every loadTask of the call has settled: loadTasks returns
LoadTasksReturn ==
  /\ \E c \in Callers :
       LET call == pending[c]
           result == TasksResult(FilterTasks(PromiseAll(call.loads, call.order)))
           io == {Io("readFile", call.loads[i].indexEntry.filePath.dir) :
                    i \in {j \in 1..Len(call.loads) : call.loads[j].read}}
       IN /\ call.pc = "Promise.all"
          /\ \A i \in 1..Len(call.loads) : call.loads[i].state = "settled"
          /\ pending' = [pending EXCEPT ![c] =
                           [pc |-> "done", op |-> "loadTasks", arg |-> call.arg,
                            result |-> result, loads |-> call.loads,
                            order |-> call.order]]
          /\ last' = Call("loadTasks", call.arg, result, io)
  /\ UNCHANGED <<disk, store, calls>>

\* the project with an active and a completed task
InitLoadTasks == Init /\ configFile = StdConfig /\ taskFiles = SmallTree.taskFiles

NextLoadTasks ==
  \/ ~lazyInitialized /\ InitializeLazy
  \/ lazyInitialized /\ LoadTasksCall
  \/ LoadTaskResume
  \/ LoadTasksReturn

\* a lazily read project whose callers load tasks without awaiting each other
SpecLoadTasks == InitLoadTasks /\ [][NextLoadTasks]_vars

\* createTask(input) is called: ensureInitialized, then it suspends in
\* fs.createDir
CreateTaskCall ==
  /\ \E c \in Callers, input \in CreateTaskInputs :
       /\ CanStart(c)
       /\ pending' = [pending EXCEPT ![c] =
                        IF ~IsInitialized
                        THEN [pc |-> "done", op |-> "createTask", arg |-> input,
                              result |-> NotInitialized]
                        ELSE [pc |-> "createDir", op |-> "createTask", arg |-> input]]
  /\ calls' = calls + 1
  /\ UNCHANGED <<disk, store, last>>

\* fs.createDir has settled: the id is taken from the ids known now, the task
\* built, and the call suspends in fs.writeFile
CreateTaskAllocate ==
  /\ \E c \in Callers :
       LET input == pending[c].arg
           taskId == <<NextTaskId>>
           task == [id |-> taskId, title |-> input.title,
                    status |-> NormalizeStatus(input.status),
                    milestone |-> input.milestone, source |-> "local",
                    filePath |-> TaskFilePath("tasks", taskId, input.title)]
       IN /\ pending[c].pc = "createDir"
          /\ NextTaskId <= MaxTaskNum
          /\ pending' = [pending EXCEPT ![c] =
                           [pc |-> "writeFile", op |-> "createTask", arg |-> input,
                            task |-> task]]
  /\ UNCHANGED <<disk, store, last, calls>>

\* fs.writeFile has settled: the file is there, the cache and the index take
\* the task, and the call returns or goes on to the milestone
CreateTaskWritten ==
  /\ \E c \in Callers :
       LET input == pending[c].arg
           task == pending[c].task
           result == TaskResult(task)
       IN /\ pending[c].pc = "writeFile" /\ pending[c].op = "createTask"
          /\ taskFiles' = Put(taskFiles, DiskPath(task.filePath), serializeTaskMarkdown(task))
          /\ tasks' = Put(tasks, task.id, task)
          /\ taskIndex' = IF lazyInitialized
                          THEN Put(taskIndex, task.id,
                                   [id |-> task.id, filePath |-> RelPath(task.filePath),
                                    title |-> task.title, source |-> "tasks"])
                          ELSE taskIndex
          /\ IF Truthy(input.milestone)
             THEN /\ pending' = [pending EXCEPT ![c].pc = "addTaskToMilestone"]
                  /\ UNCHANGED last
             ELSE /\ pending' = [pending EXCEPT ![c] =
                                   [pc |-> "done", op |-> "createTask", arg |-> input,
                                    result |-> result]]
                  /\ last' = Call("createTask", input, result,
                                  {Io("createDir", "tasks"), Io("writeFile", "tasks")})
  /\ UNCHANGED <<configFile, milestoneFiles, rootHasCompleted, config, initialized,
                 lazyInitialized, calls>>

\* addTaskToMilestone has settled (taken as one step): the call returns
CreateTaskSynced ==
  /\ \E c \in Callers :
       LET input == pending[c].arg
           task == pending[c].task
           sync == addTaskToMilestone(milestoneFiles, task.id, input.milestone)
           result == TaskResult(task)
       IN /\ pending[c].pc = "addTaskToMilestone" /\ pending[c].op = "createTask"
          /\ milestoneFiles' = sync.files
          /\ pending' = [pending EXCEPT ![c] =
                           [pc |-> "done", op |-> "createTask", arg |-> input,
                            result |-> result]]
          /\ last' = Call("createTask", input, result,
                          {Io("createDir", "tasks"), Io("writeFile", "tasks")} \cup sync.io)
  /\ UNCHANGED <<configFile, taskFiles, rootHasCompleted, store, calls>>

NextCreateRace ==
  \/ ~IsInitialized /\ Initialize
  \/ ~IsInitialized /\ InitializeLazy
  \/ CreateTaskCall
  \/ CreateTaskAllocate
  \/ CreateTaskWritten
  \/ CreateTaskSynced

\* the store whose callers create tasks without awaiting each other
SpecCreateRace == Init /\ [][NextCreateRace]_vars

\* addTaskToMilestone: loadMilestone has settled. Without the milestone, or
\* with the task already listed, the call returns; else it goes on to
\* writeMilestoneFile with the milestone it has read
AddTaskToMilestoneLoaded ==
  /\ \E c \in Callers :
       LET input == pending[c].arg
           task == pending[c].task
           result == TaskResult(task)
           io == {Io("createDir", "tasks"), Io("writeFile", "tasks")}
                   \cup LoadMilestoneIo(milestoneFiles)
       IN /\ pending[c].pc = "addTaskToMilestone" /\ pending[c].op = "createTask"
          /\ IF ~MilestoneExists(milestoneFiles, input.milestone)
             THEN /\ pending' = [pending EXCEPT ![c] =
                                   [pc |-> "done", op |-> "createTask", arg |-> input,
                                    result |-> result]]
                  /\ last' = Call("createTask", input, result, io)
             ELSE LET milestone == loadMilestone(milestoneFiles, input.milestone)
                  IN IF task.id \in SeqToSet(milestone.tasks)
                     THEN /\ pending' = [pending EXCEPT ![c] =
                                           [pc |-> "done", op |-> "createTask",
                                            arg |-> input, result |-> result]]
                          /\ last' = Call("createTask", input, result, io)
                     ELSE /\ pending' = [pending EXCEPT ![c] =
                                           [pc |-> "writeMilestoneFile", op |-> "createTask",
                                            arg |-> input, task |-> task,
                                            updatedMilestone |->
                                              [milestone EXCEPT
                                                 !.tasks = Append(milestone.tasks, task.id)]]]
                          /\ UNCHANGED last
  /\ UNCHANGED <<disk, store, calls>>

\* writeMilestoneFile(updatedMilestone) has settled (taken as one step): the
\* call returns
MilestoneFileWritten ==
  /\ \E c \in Callers :
       LET input == pending[c].arg
           result == TaskResult(pending[c].task)
       IN /\ pending[c].pc = "writeMilestoneFile"
          /\ milestoneFiles' = writeMilestoneFile(milestoneFiles, pending[c].updatedMilestone)
          /\ pending' = [pending EXCEPT ![c] =
                           [pc |-> "done", op |-> "createTask", arg |-> input,
                            result |-> result]]
          /\ last' = Call("createTask", input, result,
                          {Io("createDir", "tasks"), Io("writeFile", "tasks")}
                            \cup LoadMilestoneIo(milestoneFiles) \cup WriteMilestoneIo)
  /\ UNCHANGED <<configFile, taskFiles, rootHasCompleted, store, calls>>

\* a project with a milestone that lists no task, and no task file
InitMilestoneRace ==
  /\ configFile = StdConfig
  /\ taskFiles = EmptyMap
  /\ milestoneFiles =
       ([num |-> 0, name |-> "r-1"] :> [id |-> "m-0", title |-> "R 1", tasks |-> << >>])
  /\ rootHasCompleted = FALSE
  /\ config = NoConfig
  /\ tasks = EmptyMap
  /\ initialized = FALSE
  /\ taskIndex = EmptyMap
  /\ lazyInitialized = FALSE
  /\ last = Call("new", NoArg, Void, {})
  /\ calls = 0
  /\ pending = NoPending

NextMilestoneRace ==
  \/ ~IsInitialized /\ Initialize
  \/ ~IsInitialized /\ InitializeLazy
  \/ CreateTaskCall
  \/ CreateTaskAllocate
  \/ CreateTaskWritten
  \/ AddTaskToMilestoneLoaded
  \/ MilestoneFileWritten

\* the store whose callers create tasks of one milestone without awaiting each
\* other
SpecMilestoneRace == InitMilestoneRace /\ [][NextMilestoneRace]_vars

\* loadTask(id) is called for an indexed id that is not cached: it suspends in
\* fs.readFile(indexEntry.filePath), the path evaluated now
LoadTaskSuspend ==
  /\ \E id \in DOMAIN taskIndex \ DOMAIN tasks :
       /\ CanStart("first")
       /\ pending' = [pending EXCEPT !["first"] =
                        [pc |-> "readFile", op |-> "loadTask", arg |-> [id |-> id],
                         path |-> taskIndex[id].filePath, startedAt |-> calls + 1]]
  /\ calls' = calls + 1
  /\ UNCHANGED <<disk, store, last>>

\* the adapter reads the file, or finds none; the promise is not yet resolved
LoadTaskFileRead ==
  /\ pending["first"].pc = "readFile" /\ pending["first"].op = "loadTask"
  /\ LET call == pending["first"]
         file == DiskPath(call.path)
     IN pending' = [pending EXCEPT !["first"] =
                      [pc |-> "readFileSettled", op |-> "loadTask", arg |-> call.arg,
                       path |-> call.path, startedAt |-> call.startedAt,
                       read |-> file \in DOMAIN taskFiles,
                       content |-> IF file \in DOMAIN taskFiles THEN taskFiles[file]
                                   ELSE TaskFileContent("", Undefined, "")]]
  /\ UNCHANGED <<disk, store, last, calls>>

\* what the resumed loadTask stores; indexEntry is the object taken before the
\* await, which archiveTask and restoreTask change in place
LoadedTaskCached(ts, task) == Put(ts, task.id, task)

\* fs.readFile has settled and loadTask resumes: parse, set source, cache,
\* return; undefined when the read failed
LoadTaskContinue ==
  /\ pending["first"].pc = "readFileSettled"
  /\ LET call == pending["first"]
         indexEntry == taskIndex[call.arg.id]
         task == [parseTaskMarkdown(call.content, indexEntry.filePath)
                    EXCEPT !.source = IF indexEntry.source = "completed"
                                      THEN "completed" ELSE "local"]
         result == IF call.read THEN TaskResult(task) ELSE UndefinedResult
     IN /\ tasks' = IF call.read THEN LoadedTaskCached(tasks, task) ELSE tasks
        /\ pending' = [pending EXCEPT !["first"] =
                         [pc |-> "done", op |-> "loadTask", arg |-> call.arg,
                          result |-> result]]
        /\ last' = Call("loadTask", call.arg, result, {Io("readFile", call.path.dir)})
  /\ UNCHANGED <<disk, config, initialized, taskIndex, lazyInitialized, calls>>

NextLoadRace ==
  \/ ~lazyInitialized /\ InitializeLazy
  \/ LoadTaskSuspend
  \/ LoadTaskFileRead
  \/ LoadTaskContinue
  \/ lazyInitialized /\ LoadTask
  \/ lazyInitialized /\ UpdateTask
  \/ lazyInitialized /\ DeleteTask
  \/ lazyInitialized /\ ArchiveTask
  \/ lazyInitialized /\ RestoreTask

\* a lazily read project: one loadTask is not awaited while other calls, each
\* awaited, complete
SpecLoadRace == InitLoadTasks /\ [][NextLoadRace]_vars

\* updateTask(id, input) is called: ensureInitialized, the cached task is
\* taken, the updated task built, and the call suspends in fs.deleteFile
UpdateTaskCall ==
  /\ \E c \in Callers, id \in CallIds, input \in UpdateTaskInputs :
       LET arg == [id |-> id, input |-> input]
           existing == getExisting(id).task
           newMilestone == IF input.milestone = Null THEN Undefined
                           ELSE IF input.milestone # Undefined THEN input.milestone
                           ELSE existing.milestone
           updated == [existing EXCEPT
                         !.title = IF input.title # Undefined THEN input.title ELSE @,
                         !.status = IF input.status # Undefined THEN input.status ELSE @,
                         !.milestone = newMilestone]
       IN /\ CanStart(c)
          /\ pending' = [pending EXCEPT ![c] =
                           IF ~IsInitialized
                           THEN [pc |-> "done", op |-> "updateTask", arg |-> arg,
                                 result |-> NotInitialized]
                           ELSE IF ~getExisting(id).found
                           THEN [pc |-> "done", op |-> "updateTask", arg |-> arg,
                                 result |-> NullResult]
                           ELSE [pc |-> "deleteFile", op |-> "updateTask", arg |-> arg,
                                 existing |-> existing, updated |-> updated]]
  /\ calls' = calls + 1
  /\ UNCHANGED <<disk, store, last>>

\* fs.deleteFile(existing.filePath) has settled, a rejection swallowed: the
\* call suspends in fs.writeFile
UpdateTaskDeleted ==
  /\ \E c \in Callers :
       /\ pending[c].pc = "deleteFile"
       /\ taskFiles' = Remove(taskFiles, DiskPath(pending[c].existing.filePath))
       /\ pending' = [pending EXCEPT ![c].pc = "writeFile"]
  /\ UNCHANGED <<configFile, milestoneFiles, rootHasCompleted, store, last, calls>>

\* fs.writeFile has settled: the file is there under the name of the updated
\* title, the cache takes the updated task, and the call returns or goes on to
\* the milestones
UpdateTaskWritten ==
  /\ \E c \in Callers :
       LET id == pending[c].arg.id
           existing == pending[c].existing
           filepath == TaskFilePath("tasks", id, pending[c].updated.title)
           updated == [pending[c].updated EXCEPT !.filePath = filepath]
           result == TaskResult(updated)
       IN /\ pending[c].pc = "writeFile" /\ pending[c].op = "updateTask"
          /\ taskFiles' = Put(taskFiles, DiskPath(filepath),
                              serializeTaskMarkdown(pending[c].updated))
          /\ tasks' = Put(tasks, id, updated)
          /\ IF milestoneChanged(existing.milestone, updated.milestone)
             THEN /\ pending' = [pending EXCEPT ![c].pc = "milestoneSync",
                                                ![c].updated = updated]
                  /\ UNCHANGED last
             ELSE /\ pending' = [pending EXCEPT ![c] =
                                   [pc |-> "done", op |-> "updateTask",
                                    arg |-> pending[c].arg, result |-> result]]
                  /\ last' = Call("updateTask", pending[c].arg, result,
                                  {Io("deleteFile", existing.filePath.dir),
                                   Io("writeFile", "tasks")})
  /\ UNCHANGED <<configFile, milestoneFiles, rootHasCompleted, config, initialized,
                 taskIndex, lazyInitialized, calls>>

\* removeTaskFromMilestone and addTaskToMilestone have settled (taken as one
\* step): the call returns
UpdateTaskSynced ==
  /\ \E c \in Callers :
       LET id == pending[c].arg.id
           oldMilestone == pending[c].existing.milestone
           newMilestone == pending[c].updated.milestone
           removed == IF Truthy(oldMilestone)
                      THEN removeTaskFromMilestone(milestoneFiles, id, oldMilestone)
                      ELSE [files |-> milestoneFiles, io |-> {}]
           added == IF Truthy(newMilestone)
                    THEN addTaskToMilestone(removed.files, id, newMilestone)
                    ELSE [files |-> removed.files, io |-> {}]
           result == TaskResult(pending[c].updated)
       IN /\ pending[c].pc = "milestoneSync"
          /\ milestoneFiles' = added.files
          /\ pending' = [pending EXCEPT ![c] =
                           [pc |-> "done", op |-> "updateTask", arg |-> pending[c].arg,
                            result |-> result]]
          /\ last' = Call("updateTask", pending[c].arg, result,
                          {Io("deleteFile", pending[c].existing.filePath.dir),
                           Io("writeFile", "tasks")} \cup removed.io \cup added.io)
  /\ UNCHANGED <<configFile, taskFiles, rootHasCompleted, store, calls>>

NextUpdateRace ==
  \/ ~IsInitialized /\ Initialize
  \/ ~IsInitialized /\ InitializeLazy
  \/ LoadTask
  \/ UpdateTaskCall
  \/ UpdateTaskDeleted
  \/ UpdateTaskWritten
  \/ UpdateTaskSynced

\* the store whose callers update tasks without awaiting each other
SpecUpdateRace == Init /\ [][NextUpdateRace]_vars

\* ------------------------------------------------------------------ claims

\* what the store holds of a task: its cached form, or its file
StoredTaskMilestones(id) ==
  (IF id \in DOMAIN tasks THEN {tasks[id].milestone} ELSE {})
    \cup {parseTaskMarkdown(taskFiles[p], AbsPath(p)).milestone :
            p \in {q \in DOMAIN taskFiles : q.id = id}}

StoredTaskIds == DOMAIN tasks \cup {p.id : p \in DOMAIN taskFiles}

ExistingMilestones == {parseMilestoneMarkdown(milestoneFiles[p]) : p \in DOMAIN milestoneFiles}

\* C1: on an initialized store, for every existing milestone M and task id t:
\* t is in M's tasks list if and only if a task t exists whose milestone field
\* refers to M. Stated in its weakest reading: a listed id belongs to a stored
\* task whose milestone key is M's, and a stored task whose milestone field is
\* exactly M's id is listed.
C1_BidirectionalConsistency ==
  IsInitialized =>
    \A M \in ExistingMilestones :
      /\ \A t \in SeqToSet(M.tasks) :
           /\ t \in StoredTaskIds
           /\ \E m \in StoredTaskMilestones(t) : milestoneKey(m) = milestoneKey(M.id)
      /\ \A t \in StoredTaskIds :
           M.id \in StoredTaskMilestones(t) => t \in SeqToSet(M.tasks)


\* C2: from an empty initialized store, eager or lazy, the k-th createTask
\* returns id k, whatever the titles (under SpecCreate one initialization
\* precedes the createTask calls, so the k-th createTask is step k + 1).
C2_IdMonotonicity ==
  last.op = "createTask" =>
    /\ last.result.kind = "task"
    /\ last.result.task.id = <<calls - 1>>

\* C2 witness: a second createTask on a lazily initialized store returned "2"
\* for a title other than the first one's.
C2_Witness ==
  /\ lazyInitialized /\ ~initialized
  /\ last.op = "createTask" /\ last.result.kind = "task"
  /\ last.result.task.id = <<2>>
  /\ <<1>> \in DOMAIN tasks /\ tasks[<<1>>].title # last.result.task.title

\* the public queries and mutations of the model
QueryMutationOps ==
  {"getTask", "loadTask", "loadTasks", "createTask", "updateTask", "deleteTask",
   "archiveTask", "restoreTask", "createMilestone"}

\* C3: on a store on which no initialization has completed, every public query
\* or mutation fails with the not-initialized failure and performs no adapter
\* I/O (a store that is not initialized never was: initialization is not undone).
C3_NotInitialized ==
  (~IsInitialized /\ last.op \in QueryMutationOps) =>
    /\ last.result = NotInitialized
    /\ last.io = {}


\* the structured fields two tasks are compared in
StructuredFields(t) ==
  [id |-> t.id, title |-> t.title, status |-> t.status, milestone |-> t.milestone,
   source |-> t.source]

\* loadTasks(allIds) has just returned on a lazily initialized store
LoadedAllLazily == lazyInitialized /\ ~initialized /\ last.op = "loadTasks"

\* what loadTasks(allIds) returned has, for every id the map eager built by
\* initialize() holds a task for, a task equal to it in the structured fields
AgreesWithEager(eager) ==
  \A id \in DOMAIN eager :
    \E i \in 1..Len(last.result.tasks) :
      StructuredFields(last.result.tasks[i]) = StructuredFields(eager[id])

\* C4 as stated: for one and the same tree, loadTasks(allIds) after
\* initializeLazy(paths) yields for every id the task initialize() holds for it
\* (for some order in which initialize() may be handed the directory listings).
C4_LazyEagerEquivalence ==
  LoadedAllLazily =>
    \E al \in Perms(FilesIn("tasks")), cl \in Perms(FilesIn("completed")) :
      AgreesWithEager(EagerTasks(EmptyMap, al, cl))


\* the directory archiveTask and restoreTask move a task to, and the source
\* the moved task has
MoveDestination(op) == IF op = "archiveTask" THEN "completed" ELSE "tasks"
MovedSource(op) == IF op = "archiveTask" THEN "completed" ELSE "local"

\* C5: when archiveTask(id) or restoreTask(id) returns a task, the task's file
\* exists in the destination directory, no file remains at the old path, the
\* source is flipped, and the cached task and the lazy index entry (in lazy
\* mode) refer to the new location.
C5_ArchiveRestoreAreMoves ==
  [][(last'.op \in {"archiveTask", "restoreTask"} /\ last'.result.kind = "task") =>
       LET id == last'.arg.id
           old == tasks[id]
           moved == last'.result.task
       IN /\ moved.filePath.dir = MoveDestination(last'.op)
          /\ DiskPath(moved.filePath) \in DOMAIN taskFiles'
          /\ DiskPath(old.filePath) \notin DOMAIN taskFiles'
          /\ moved.source = MovedSource(last'.op) /\ moved.source # old.source
          /\ tasks'[id] = moved
          /\ (lazyInitialized /\ id \in DOMAIN taskIndex) =>
               /\ taskIndex'[id].filePath = moved.filePath
               /\ taskIndex'[id].source = MoveDestination(last'.op)]_vars


\* C6: deleteTask(id) returns true exactly when the store held a task with
\* that id; after a true result the task's file is absent (also when it was
\* gone before the call), the id is in the tasks list of no milestone the
\* task's milestone field referred to (by milestone key), and the store holds
\* no task for the id, so that getTask(id) returns undefined.
C6_DeleteTask ==
  [][(IsInitialized /\ last'.op = "deleteTask") =>
       LET id == last'.arg.id
       IN /\ last'.result = BoolResult(id \in DOMAIN tasks)
          /\ id \in DOMAIN tasks =>
               /\ DiskPath(tasks[id].filePath) \notin DOMAIN taskFiles'
               /\ \A M \in ExistingMilestones' :
                    milestoneKey(M.id) = milestoneKey(tasks[id].milestone) =>
                      id \notin SeqToSet(M.tasks)
               /\ id \notin DOMAIN tasks']_vars


\* C7: on an initialized store, updateTask(id, input) for an id the task cache
\* holds no task for (also an id that is in the lazy index but was never
\* loaded) returns null, calls the adapter for nothing, and leaves the cache,
\* the index, the task files and the milestone files as they were.
C7_UpdateTaskDoesNotLoad ==
  [][(IsInitialized /\ last'.op = "updateTask" /\ last'.arg.id \notin DOMAIN tasks) =>
       /\ last'.result = NullResult
       /\ last'.io = {}
       /\ UNCHANGED <<disk, store>>]_vars

\* C7 witness: updateTask has returned null for an id that is in the lazy
\* index, has its file on disk and was never loaded.
C7_Witness ==
  /\ lazyInitialized
  /\ last.op = "updateTask" /\ last.result = NullResult
  /\ last.arg.id \in DOMAIN taskIndex /\ last.arg.id \notin DOMAIN tasks
  /\ DiskPath(taskIndex[last.arg.id].filePath) \in DOMAIN taskFiles

\* the tasks list loadMilestone(id) returns from the milestone files mf
MilestoneTasks(mf, id) == SeqToSet(loadMilestone(mf, id).tasks)

\* C8: with milestone m-0 existing, a createTask({milestone: "m-0"}) that
\* returns task t leaves t in loadMilestone("m-0").tasks; an updateTask(t,
\* {milestone: null}) on that task (its milestone field still "m-0", t in the
\* list) leaves t out of loadMilestone("m-0").tasks and the milestone field
\* unset in the result, in the cache and in the file written.
C8_MilestoneSyncScenario ==
  [][/\ (/\ last'.op = "createTask" /\ last'.result.kind = "task"
         /\ last'.arg.milestone = "m-0" /\ MilestoneExists(milestoneFiles, "m-0")) =>
          /\ MilestoneExists(milestoneFiles', "m-0")
          /\ last'.result.task.id \in MilestoneTasks(milestoneFiles', "m-0")
     /\ (/\ last'.op = "updateTask" /\ last'.result.kind = "task"
         /\ last'.arg.input.milestone = Null
         /\ tasks[last'.arg.id].milestone = "m-0"
         /\ MilestoneExists(milestoneFiles, "m-0")
         /\ last'.arg.id \in MilestoneTasks(milestoneFiles, "m-0")) =>
          /\ MilestoneExists(milestoneFiles', "m-0")
          /\ last'.arg.id \notin MilestoneTasks(milestoneFiles', "m-0")
          /\ last'.result.task.milestone = Undefined
          /\ tasks'[last'.arg.id].milestone = Undefined
          /\ taskFiles'[DiskPath(last'.result.task.filePath)].milestone = Undefined]_vars

\* C8 witness: task 3, which only createTask can have made, was in m-0 and
\* updateTask(3, {milestone: null}) has just taken it out of the list.
C8_Witness ==
  /\ last.op = "updateTask" /\ last.result.kind = "task"
  /\ last.arg.id = <<3>> /\ last.arg.input.milestone = Null
  /\ Io("writeFile", "milestones") \in last.io
  /\ MilestoneExists(milestoneFiles, "m-0")
  /\ <<3>> \notin MilestoneTasks(milestoneFiles, "m-0")
  /\ tasks[<<3>>].milestone = Undefined

\* the adapter calls of a call that touch the milestones directory
MilestoneIo(io) == {e \in io : e[2] = "milestones"}

C11_NotAProject ==
  [][/\ (~configFile.present /\ last'.op \in {"initialize", "initializeLazy"}) =>
          /\ last'.result = NotAProject
          /\ config' = NoConfig /\ ~initialized' /\ ~lazyInitialized'
          /\ UNCHANGED <<disk, store>>
     /\ (last.result = NotAProject /\ last'.op \in QueryMutationOps) =>
          last'.result = NotInitialized]_vars


\* the adapter call that failed during the last call, "none" when none did
Failing == IF "failing" \in DOMAIN last.arg THEN last.arg.failing ELSE "none"

\* the task initialize() makes of the task file p
TaskOfFile(p) ==
  [parseTaskMarkdown(taskFiles[p], AbsPath(p))
     EXCEPT !.source = IF p.dir = "completed" THEN "completed" ELSE "local"]

\* C12: when reading or parsing some task files fails during initialize(),
\* initialize() still completes successfully, and every other .md file of the
\* active and the completed directory is loaded into the task map.
C12_PerFileIsolation ==
  (last.op = "initialize" /\ Failing = "readFile") =>
    /\ last.result = Void
    /\ initialized
    /\ \A p \in ListedFiles \ last.arg.files :
         /\ p.id \in DOMAIN tasks
         /\ tasks[p.id] = TaskOfFile(p)

\* C12 witness: initialize() has completed although one file could not be
\* read; that file's task is missing, another file's task is loaded.
C12_Witness ==
  /\ last.op = "initialize" /\ Failing = "readFile" /\ last.result = Void
  /\ \E q \in last.arg.files : q.id \notin DOMAIN tasks
  /\ \E p \in ListedFiles \ last.arg.files : tasks[p.id] = TaskOfFile(p)

\* C13: when exists or readDir fails for the completed directory during
\* initialize(), the failure is not propagated: initialize() completes
\* successfully and the active tasks are loaded.
C13_CompletedDirFailure ==
  (last.op = "initialize" /\ Failing \in {"exists", "readDir"}) =>
    /\ last.result = Void
    /\ initialized
    /\ \A p \in FilesIn("tasks") : p.id \in DOMAIN tasks

\* C14: a missing project is reported by the not-a-project failure, a missing
\* entity by an undefined result, and an adapter failure on an existing entity
\* by an error, so never by the result that stands for entity-not-found.
C14_ThreeOutcomes ==
  /\ (last.op \in {"initialize", "initializeLazy"} /\ ~configFile.present) =>
       last.result = NotAProject
  /\ (last.op = "loadTask" /\ Failing = "none" /\ last.arg.id = UnknownId) =>
       last.result = UndefinedResult
  /\ (last.op \in {"loadTask", "createTask", "updateTask"} /\ Failing # "none") =>
       /\ last.result.kind = "error"
       /\ last.result \notin {NotAProject, NotInitialized}

\* C15: when writeFile fails during createTask or updateTask, the call
\* rejects with the failure (no null result), and the task cache and the index
\* are what they were before the call.
C15_WriteFailurePropagates ==
  [][(last'.op \in {"createTask", "updateTask"} /\ Failing' = "writeFile") =>
       /\ last'.result = AdapterFailure
       /\ tasks' = tasks
       /\ taskIndex' = taskIndex]_vars

\* C15 witness: updateTask has rejected because its write failed; the cache
\* still holds the task, whose old file is already deleted.
C15_Witness ==
  /\ last.op = "updateTask" /\ Failing = "writeFile"
  /\ last.result = AdapterFailure
  /\ last.arg.id \in DOMAIN tasks
  /\ DiskPath(tasks[last.arg.id].filePath) \notin DOMAIN taskFiles


\* C16: while the cache holds a task for an id (loadTask has returned it and
\* no deletion came since), loadTask(id) and getTask(id) return the cached
\* task without any adapter call and without consulting the index.
C16_LoadTaskCaching ==
  [][\A id \in DOMAIN tasks :
       (last'.op \in {"loadTask", "getTask"} /\ last'.arg.id = id) =>
         /\ last'.result = TaskResult(tasks[id])
         /\ last'.io = {}
         /\ tasks' = tasks]_vars

\* C16 witness: on a lazily initialized store a second loadTask of the
\* completed task of the project has answered from the cache, with no read.
C16_Witness ==
  /\ lazyInitialized /\ ~initialized
  /\ calls >= 3
  /\ last.op = "loadTask" /\ last.result.kind = "task" /\ last.io = {}
  /\ last.result.task.source = "completed" /\ last.result.task.title = "B?"
  /\ last.arg.id \in DOMAIN taskIndex


\* the file of the listing that is processed last among those resolving to id
RECURSIVE LastWithId(_, _)
LastWithId(listing, id) ==
  IF listing[Len(listing)].id = id THEN listing[Len(listing)]
  ELSE LastWithId(SubSeq(listing, 1, Len(listing) - 1), id)

\* C20: initialize() over files that resolve to one id succeeds, and the map
\* holds for each id exactly the task of the file processed later (the active
\* directory in listing order, then completed/).
C20_DuplicateIdCollision ==
  (last.op = "initialize" /\ "listing" \in DOMAIN last.arg) =>
    /\ last.result = Void
    /\ initialized
    /\ DOMAIN tasks = {p.id : p \in ListedFiles}
    /\ \A id \in DOMAIN tasks :
         tasks[id] = TaskOfFile(LastWithId(last.arg.listing, id))

\* C20 witness: initialize() has read two active files of one id, and the
\* task kept is the one of the file listed second.
C20_Witness ==
  /\ last.op = "initialize" /\ "listing" \in DOMAIN last.arg
  /\ \E i, j \in 1..Len(last.arg.listing) :
       /\ i < j
       /\ last.arg.listing[i].id = last.arg.listing[j].id
       /\ last.arg.listing[i].dir = "tasks" /\ last.arg.listing[j].dir = "tasks"
       /\ FilesIn("completed") = {}
       /\ tasks[last.arg.listing[j].id] = TaskOfFile(last.arg.listing[j])
       /\ tasks[last.arg.listing[j].id] # TaskOfFile(last.arg.listing[i])


\* the positions of a returned loadTasks call whose load yielded a task
LoadedPositions(call) ==
  {i \in 1..Len(call.loads) : call.loads[i].result.kind = "task"}

\* C17: for every order in which the per-id loads of loadTasks(ids) settle, the
\* result lists exactly the tasks that were loaded, in the order of ids; a
\* missing or failed id is left out and no task stands in for another id.
C17_LoadTasksOrder ==
  \A c \in Callers :
    (pending[c].pc = "done" /\ pending[c].op = "loadTasks") =>
      LET call == pending[c]
          res == call.result.tasks
      IN /\ call.result.kind = "tasks"
         /\ Len(res) = Cardinality(LoadedPositions(call))
         /\ \A i \in LoadedPositions(call) :
              LET k == Cardinality({j \in LoadedPositions(call) : j <= i})
              IN /\ res[k] = call.loads[i].result.task
                 /\ res[k].id = call.arg.ids[i]

\* C17 witness: a loadTasks call returned two tasks whose reads settled in the
\* reverse of the input order, and left out an id.
C17_Witness ==
  \E c \in Callers :
    /\ pending[c].pc = "done" /\ pending[c].op = "loadTasks"
    /\ Len(pending[c].order) = 2
    /\ pending[c].order[1] > pending[c].order[2]
    /\ Len(pending[c].result.tasks) = 2
    /\ Len(pending[c].arg.ids) = 3


FilesOfId(id) == {p \in DOMAIN taskFiles : p.id = id}

\* C19: once two updateTask calls for one loaded id, issued without awaiting
\* the first, have both returned, both returned a task, the cached task and
\* the content on disk are those of one of the two calls, and exactly one file
\* of the id exists.
C19_LastWriteWins ==
  (/\ \A c \in Callers :
        /\ pending[c].pc = "done" /\ pending[c].op = "updateTask"
        /\ pending[c].result.kind \notin {"null"}
        /\ pending[c].result # NotInitialized
   /\ pending["first"].arg.id = pending["second"].arg.id) =>
    LET id == pending["first"].arg.id
    IN /\ \A c \in Callers : pending[c].result.kind = "task"
       /\ \E c \in Callers :
            LET task == pending[c].result.task
            IN /\ tasks[id] = task
               /\ DiskPath(task.filePath) \in DOMAIN taskFiles
               /\ taskFiles[DiskPath(task.filePath)] = serializeTaskMarkdown(task)
       /\ Cardinality(FilesOfId(id)) = 1


\* C21: a createMilestone call never returns an id that an earlier
\* createMilestone call returned: on a project that began without milestones,
\* the call that follows a successful deleteMilestone(id) returns another id.
C21_MilestoneIdsNeverReused ==
  [][(/\ last.op = "deleteMilestone" /\ last.result = BoolResult(TRUE)
      /\ last'.op = "createMilestone") =>
       last'.result.milestone.id # last.arg.id]_vars

\* C22: deleteMilestone(id) changes no task, neither in the cache nor on disk
\* nor in the index, whether or not the task refers to the milestone.
C22_DeleteMilestoneKeepsTasks ==
  [][last'.op = "deleteMilestone" =>
       /\ tasks' = tasks
       /\ taskFiles' = taskFiles
       /\ taskIndex' = taskIndex]_vars

\* C22 witness: a milestone was deleted while a cached task, and its file,
\* name it in their milestone field.
C22_Witness ==
  /\ last.op = "deleteMilestone" /\ last.result = BoolResult(TRUE)
  /\ \E id \in DOMAIN tasks :
       /\ tasks[id].milestone = last.arg.id
       /\ DiskPath(tasks[id].filePath) \in DOMAIN taskFiles
       /\ taskFiles[DiskPath(tasks[id].filePath)].milestone = last.arg.id


\* C23: on an initialized store, archiveTask(id) of a task whose source is
\* completed, restoreTask(id) of a task whose source is not completed, and
\* either call with an id the cache does not hold, return null, make no
\* adapter call, and leave the disk, the cache and the index as they were.
C23_NoOpMoves ==
  [][\A id \in CallIds :
       (/\ IsInitialized
        /\ last'.arg = [id |-> id]
        /\ \/ /\ last'.op = "archiveTask"
              /\ id \notin DOMAIN tasks \/ tasks[id].source = "completed"
           \/ /\ last'.op = "restoreTask"
              /\ id \notin DOMAIN tasks \/ tasks[id].source # "completed") =>
         /\ last'.result = NullResult
         /\ last'.io = {}
         /\ UNCHANGED <<disk, store>>]_vars

\* C23 witness: archiveTask was called for a cached task that is in completed,
\* and returned null.
C23_Witness ==
  /\ last.op = "archiveTask" /\ last.result = NullResult
  /\ last.arg.id \in DOMAIN tasks
  /\ tasks[last.arg.id].source = "completed"
  /\ DiskPath(tasks[last.arg.id].filePath) \in DOMAIN taskFiles


\* the task number of an id: the N of N or N.M
TaskNumber(id) == id[1]

\* the ids authoritative for the mode: the index in lazy mode, else the map
AuthoritativeIds == IF lazyInitialized THEN DOMAIN taskIndex ELSE DOMAIN tasks

\* C24: createTask returns the id 1 + the largest task number among the ids of
\* the index (lazy mode) or of the task map (eager mode), a dotted id N.M
\* counting as N, and 1 when there is none.
C24_NextIdIsMaxPlusOne ==
  [][(IsInitialized /\ last'.op = "createTask" /\ last'.result.kind = "task") =>
       last'.result.task.id =
         << IF AuthoritativeIds = {} THEN 1
            ELSE SetMax({TaskNumber(id) : id \in AuthoritativeIds}) + 1 >>]_vars


\* C25: archiveTask(id) of a loaded active task keeps its id and structured
\* fields, and the restoreTask(id) that follows gives back a task with that id
\* and those fields, source local, cached, and written in exactly one file of
\* the id, in the active directory.
C25_ArchiveRestoreRoundTrip ==
  [][/\ (last'.op = "archiveTask" /\ last'.result.kind = "task") =>
          /\ tasks[last'.arg.id].source = "local"
          /\ last'.result.task =
               [tasks[last'.arg.id] EXCEPT !.source = "completed",
                                           !.filePath = last'.result.task.filePath]
     /\ (/\ last.op = "archiveTask" /\ last.result.kind = "task"
         /\ last'.op = "restoreTask" /\ last'.arg.id = last.arg.id) =>
          LET id == last.arg.id
              restored == tasks'[id]
          IN /\ last'.result = TaskResult(restored)
             /\ restored = [last.result.task EXCEPT !.source = "local",
                                                    !.filePath = restored.filePath]
             /\ restored.filePath.dir = "tasks"
             /\ {p \in DOMAIN taskFiles' : p.id = id} = {DiskPath(restored.filePath)}
             /\ taskFiles'[DiskPath(restored.filePath)] = serializeTaskMarkdown(restored)]_vars

\* C25 witness: task 1, which is active from the start in every project
\* explored, has been archived and then restored.
C25_Witness ==
  /\ last.op = "restoreTask" /\ last.arg.id = <<1>>
  /\ last.result.kind = "task"
  /\ last.result.task.source = "local"
  /\ last.result.task.milestone = "m-0"


\* how often x occurs in list
Occurrences(list, x) == Cardinality({i \in 1..Len(list) : list[i] = x})

\* C26: for labels, dependencies and references, updateTask yields exactly the
\* replacement list when one is supplied, whatever addX and removeX say;
\* otherwise the existing elements and those of addX, without those of removeX,
\* and no element more often than before unless it was absent and now occurs
\* once.
C26_ListUpdates ==
  (last.op = "updateTask" /\ "field" \in DOMAIN last.arg) =>
    LET input == last.arg.input
        existing == IF IsSupplied(last.arg.existing) THEN last.arg.existing[1] ELSE << >>
        result == last.result
    IN IF IsSupplied(input.replace)
       THEN result = input.replace[1]
       ELSE /\ SeqToSet(result) =
                 (SeqToSet(existing)
                    \cup (IF IsSupplied(input.add) THEN SeqToSet(input.add[1]) ELSE {}))
                   \ (IF IsSupplied(input.remove) THEN SeqToSet(input.remove[1]) ELSE {})
            /\ \A x \in ListItems :
                 \/ Occurrences(result, x) <= Occurrences(existing, x)
                 \/ Occurrences(result, x) = 1


\* the page at cursor k * L of the task map the last call was made on: its own
\* result, or what the call for that page returns
PageOfLast(k) ==
  IF k * last.arg.limit = last.arg.currentOffset THEN last.result
  ELSE loadMoreForStatus(last.arg.values, last.arg.status, k * last.arg.limit,
                         last.arg.limit)

\* the items of the pages k, k + 1, ... in a row
RECURSIVE ItemsFromPage(_)
ItemsFromPage(k) ==
  IF k > MaxBucket THEN << >> ELSE PageOfLast(k).items \o ItemsFromPage(k + 1)

\* C27: over one task map, the pages loadMoreForStatus(status, 0, {limit: L}),
\* loadMoreForStatus(status, L, {limit: L}), ... are pairwise disjoint, hold
\* every task of the status exactly once and no other task; each page reports
\* the size of the bucket as total and hasMore exactly when tasks lie beyond it.
C27_PaginationCursor ==
  last.op = "loadMoreForStatus" =>
    LET values == last.arg.values
        bucket == {values[i] : i \in {j \in 1..Len(values) :
                                        values[j].status = last.arg.status}}
        n == Cardinality(bucket)
        all == ItemsFromPage(0)
    IN /\ last.result.total = n
       /\ Len(last.result.items) <= last.arg.limit
       /\ last.result.hasMore = (n > last.arg.currentOffset + Len(last.result.items))
       /\ Len(all) = n
       /\ SeqToSet(all) = bucket

\* C27 witness: the second page of a bucket of five tasks with limit 2, where
\* two tasks of the bucket carry the same title.
C27_Witness ==
  /\ last.op = "loadMoreForStatus"
  /\ last.arg.limit = 2 /\ last.arg.currentOffset = 2
  /\ last.result.total = 5 /\ last.result.hasMore
  /\ Len(last.result.items) = 2
  /\ last.result.items[1].title = last.result.items[2].title


\* C28: parseTaskMarkdown(serializeTaskMarkdown(t), path) reproduces the id,
\* title, status, milestone, description and acceptance criteria of t, also
\* when t has acceptance criteria or an implementation plan or notes.
C28_RoundTrip ==
  last.op = "parseTaskMarkdown" =>
    LET t == last.arg.task
        parsed == last.result
    IN /\ parsed.id = t.id
       /\ parsed.title = t.title
       /\ parsed.status = t.status
       /\ parsed.milestone = t.milestone
       /\ parsed.acceptanceCriteriaItems = t.acceptanceCriteriaItems
       /\ parsed.description = t.description


\* the order the three levels define: a strictly before b
HasOrdinalFirst(a, b) == IsSupplied(a.ordinal) /\ ~IsSupplied(b.ordinal)
SameOrdinal(a, b) == a.ordinal = b.ordinal
ThreeLevelBefore(a, b) ==
  \/ HasOrdinalFirst(a, b)
  \/ IsSupplied(a.ordinal) /\ IsSupplied(b.ordinal) /\ a.ordinal[1] < b.ordinal[1]
  \/ SameOrdinal(a, b) /\ PriorityNumber(a) < PriorityNumber(b)
  \/ SameOrdinal(a, b) /\ PriorityNumber(a) = PriorityNumber(b)
       /\ DateRank(a.createdDate) > DateRank(b.createdDate)
IsPermutation(out, in) ==
  Len(out) = Len(in) /\ \A i \in 1..Len(in) : Occurrences(out, in[i]) = Occurrences(in, in[i])

\* C29: sortTasks returns a permutation of its input in which no task stands
\* behind one it precedes by ordinal (present before absent, ascending), then
\* priority (high, medium, low, unset) on equal or absent ordinals, then
\* createdDate descending; and [A, B, C, D] of the example becomes [B, A, C, D].
C29_SortTasks ==
  last.op = "sortTasks" =>
    LET in == last.arg.tasks
        out == last.result
    IN /\ IsPermutation(out, in)
       /\ \A i, j \in 1..Len(out) : i < j => ~ThreeLevelBefore(out[j], out[i])
       /\ in = SortExample =>
            out = <<SortExample[2], SortExample[1], SortExample[3], SortExample[4]>>


\* the statuses of a list that are not configured
Unconfigured(list, statuses) ==
  {list[i].status : i \in 1..Len(list)} \ SeqToSet(statuses)

\* C30: the keys of groupTasksByStatus(tasks, statuses) are distinct, begin
\* with the configured statuses in configured order, and the others are exactly
\* the unconfigured statuses present among the tasks; the bucket of a key holds
\* exactly the input tasks of that status, each as often as the input does, so
\* a configured status without tasks has an empty bucket.
C30_GroupingComplete ==
  last.op = "groupTasksByStatus" =>
    LET list == last.arg.tasks
        statuses == last.arg.statuses
        grouped == last.result
        keys == MapKeys(grouped)
        configured == Dedup(statuses)
    IN /\ \A i, j \in 1..Len(keys) : keys[i] = keys[j] => i = j
       /\ Len(keys) >= Len(configured)
       /\ SubSeq(keys, 1, Len(configured)) = configured
       /\ {keys[i] : i \in (Len(configured) + 1)..Len(keys)} = Unconfigured(list, statuses)
       /\ \A i \in 1..Len(grouped) :
            IsPermutation(grouped[i].value,
                          SelectSeq(list, LAMBDA t : t.status = grouped[i].key))

\* a configured status without tasks, an unconfigured status present, and a
\* bucket of two tasks
C30_Witness ==
  /\ last.op = "groupTasksByStatus"
  /\ last.arg.statuses = <<"To Do", "Done">>
  /\ MapGet(last.result, "To Do") = << >>
  /\ Len(MapGet(last.result, "Done")) = 2
  /\ MapKeys(last.result) = <<"To Do", "Done", "Blocked">>


\* the normalized milestone keys of a task list and of the entities
KeysOf(list, entities) ==
  ({milestoneKey(list[i].milestone) : i \in 1..Len(list)}
     \cup {milestoneKey(entities[i].id) : i \in 1..Len(entities)}) \ {""}

\* C31: the first bucket of buildMilestoneBuckets is the no-milestone bucket,
\* the others are one per distinct normalized milestone key of the tasks and
\* entities, and every task is in exactly one bucket: the one whose key is its
\* normalized milestone, the first when its milestone is absent or blank.
C31_MilestonePartition ==
  last.op = "buildMilestoneBuckets" =>
    LET list == last.arg.tasks
        buckets == last.result
    IN /\ buckets[1].isNoMilestone /\ buckets[1].key = NO_MILESTONE_KEY
       /\ \A b \in 2..Len(buckets) : ~buckets[b].isNoMilestone
       /\ {buckets[b].key : b \in 2..Len(buckets)} = KeysOf(list, last.arg.milestoneEntities)
       /\ Len(buckets) = 1 + Cardinality(KeysOf(list, last.arg.milestoneEntities))
       /\ \A i \in 1..Len(list) :
            /\ Cardinality({b \in 1..Len(buckets) : list[i] \in SeqToSet(buckets[b].tasks)}) = 1
            /\ \A b \in 1..Len(buckets) :
                 list[i] \in SeqToSet(buckets[b].tasks) =>
                   /\ Occurrences(buckets[b].tasks, list[i]) = 1
                   /\ IF milestoneKey(list[i].milestone) = "" THEN b = 1
                      ELSE b > 1 /\ buckets[b].key = milestoneKey(list[i].milestone)

\* three spellings of one milestone in one bucket, a blank one in the first
C31_Witness ==
  /\ last.op = "buildMilestoneBuckets"
  /\ Len(last.result) = 2
  /\ {last.result[2].tasks[i].milestone : i \in 1..Len(last.result[2].tasks)}
       = {" m-0 ", "M-0"}
  /\ \E i \in 1..Len(last.result[1].tasks) : last.result[1].tasks[i].milestone = " "

RECURSIVE SumOver(_, _)
SumOver(f, S) ==
  IF S = {} THEN 0 ELSE LET x == CHOOSE y \in S : TRUE IN f[x] + SumOver(f, S \ {x})

\* C32: in every bucket statusCounts has every configured status, its values
\* sum to total, doneCount counts the tasks whose status contains "done" or
\* "complete" whatever the case, and progress is the integer nearest to
\* 100 * doneCount / total (halves upwards), within 0..100, 0 for no task.
C32_BucketNumbers ==
  last.op = "buildMilestoneBuckets" =>
    \A b \in 1..Len(last.result) :
      LET bucket == last.result[b]
          counts == bucket.statusCounts
      IN /\ SeqToSet(last.arg.statuses) \subseteq DOMAIN counts
         /\ \A st \in SeqToSet(last.arg.statuses) :
              counts[st] = Cardinality({i \in 1..Len(bucket.tasks) : bucket.tasks[i].status = st})
         /\ SumOver(counts, DOMAIN counts) = bucket.total
         /\ bucket.total = Len(bucket.tasks)
         /\ bucket.doneCount =
              Cardinality({i \in 1..Len(bucket.tasks) :
                             bucket.tasks[i].status \in {"Done", "DONE", "Undone", "Completed"}})
         /\ bucket.progress \in 0..100
         /\ bucket.total = 0 => bucket.progress = 0
         /\ bucket.total > 0 =>
              /\ 2 * bucket.total * bucket.progress <= 200 * bucket.doneCount + bucket.total
              /\ 2 * bucket.total * (bucket.progress + 1) > 200 * bucket.doneCount + bucket.total

\* a bucket of three tasks, two of them done under different spellings, one
\* with a status outside the configured list: progress 67
C32_Witness ==
  /\ last.op = "buildMilestoneBuckets"
  /\ last.arg.statuses = <<"To Do", "In Progress", "Done">>
  /\ \E b \in 1..Len(last.result) :
       /\ last.result[b].total = 3 /\ last.result[b].doneCount = 2
       /\ last.result[b].progress = 67
       /\ last.result[b].statusCounts["In Progress"] = 0
       /\ "Blocked" \in DOMAIN last.result[b].statusCounts


\* C33: when writeFile fails during updateTask, archiveTask or restoreTask of a
\* task whose file exists, a file of that id with the content the task's file
\* had before the call exists afterwards.
C33_NoDataLoss ==
  [][(/\ last'.op \in {"updateTask", "archiveTask", "restoreTask"}
      /\ Failing' = "writeFile"
      /\ last'.arg.id \in DOMAIN tasks
      /\ DiskPath(tasks[last'.arg.id].filePath) \in DOMAIN taskFiles) =>
       \E q \in DOMAIN taskFiles' :
         /\ q.id = last'.arg.id
         /\ taskFiles'[q] = taskFiles[DiskPath(tasks[last'.arg.id].filePath)]]_vars


\* every cached task is completed exactly when its filePath is in the
\* completed directory, and its file is on disk
SourceMatchesLocation(ts, files) ==
  \A id \in DOMAIN ts :
    /\ ts[id].source \in {"local", "completed"}
    /\ (ts[id].source = "completed") <=> (ts[id].filePath.dir = "completed")
    /\ (ts[id].source = "local") <=> (ts[id].filePath.dir = "tasks")
    /\ DiskPath(ts[id].filePath) \in DOMAIN files

\* C34: createTask, updateTask, archiveTask and restoreTask keep the agreement
\* of every cached task's source with the directory of its filePath and of its
\* file on disk, also updateTask on a task that was archived.
C34_SourceMatchesLocation ==
  [][(/\ last'.op \in {"createTask", "updateTask", "archiveTask", "restoreTask"}
      /\ SourceMatchesLocation(tasks, taskFiles)) =>
       SourceMatchesLocation(tasks', taskFiles')]_vars


\* the index has an entry exactly for the ids that have a task file, and each
\* entry designates a file of its id, in the directory its source names
IndexAgreesWithDisk(index, files) ==
  /\ DOMAIN index = {p.id : p \in DOMAIN files}
  /\ \A id \in DOMAIN index :
       /\ DiskPath(index[id].filePath) \in DOMAIN files
       /\ index[id].filePath.id = id
       /\ index[id].source = index[id].filePath.dir

\* C35: on a lazily initialized store, createTask, loadTask, updateTask,
\* archiveTask, restoreTask and deleteTask keep the index in agreement with
\* the task files: an entry for an id exactly when a file of that id exists,
\* its filePath and source designating that file.
C35_IndexAgreesWithDisk ==
  [][(/\ lazyInitialized
      /\ last'.op \in {"createTask", "loadTask", "updateTask", "archiveTask",
                       "restoreTask", "deleteTask"}
      /\ IndexAgreesWithDisk(taskIndex, taskFiles)) =>
       IndexAgreesWithDisk(taskIndex', taskFiles')]_vars


\* C36: createTask never returns an id that is a key of the task map or of the
\* index, whichever initializations, reloads and loads came before.
C36_FreshIds ==
  [][(last'.op = "createTask" /\ last'.result.kind = "task") =>
       /\ last'.result.task.id \notin DOMAIN tasks
       /\ last'.result.task.id \notin DOMAIN taskIndex]_vars


\* C37: once two createTask calls with the same existing milestone, issued
\* without awaiting the first, have both returned tasks with different ids,
\* exactly one file of the milestone exists and its tasks list holds both ids.
C37_NoLostMilestoneUpdate ==
  (/\ \A c \in Callers :
        /\ pending[c].pc = "done" /\ pending[c].op = "createTask"
        /\ pending[c].result.kind = "task"
   /\ pending["first"].arg.milestone = pending["second"].arg.milestone
   /\ pending["first"].result.task.id # pending["second"].result.task.id
   /\ Truthy(pending["first"].arg.milestone)
   /\ MilestoneExists(milestoneFiles, pending["first"].arg.milestone)) =>
    /\ Cardinality(MilestoneFilesOf(milestoneFiles, pending["first"].arg.milestone)) = 1
    /\ \A c \in Callers :
         pending[c].result.task.id \in
           SeqToSet(loadMilestone(milestoneFiles, pending["first"].arg.milestone).tasks)


\* the last completed call is a mutation of id that succeeded
MutationCompleted(id) ==
  /\ last.op \in {"updateTask", "archiveTask", "restoreTask", "deleteTask"}
  /\ last.arg.id = id
  /\ last.result.kind = "task" \/ last.result = BoolResult(TRUE)

\* C38: when a loadTask(id) suspended in its file read resumes after an
\* updateTask, archiveTask, restoreTask or deleteTask of the same id has
\* completed, the cache entry of id stays what the mutation left: the task it
\* returned, or no entry after a delete.
C38_NoStaleCache ==
  [][(/\ pending["first"].pc = "readFileSettled" /\ pending'["first"].pc = "done"
      /\ pending["first"].startedAt < calls
      /\ MutationCompleted(pending["first"].arg.id)) =>
       LET id == pending["first"].arg.id
       IN IF last.op = "deleteTask" THEN id \notin DOMAIN tasks'
          ELSE id \in DOMAIN tasks' /\ tasks'[id] = last.result.task]_vars


\* C39: every task createTask returns has a status of the configured status
\* list, whatever config the parser produced and whatever status was given.
C39_StatusIsConfigured ==
  (last.op = "createTask" /\ last.result.kind = "task") =>
    last.result.task.status \in SeqToSet(config.statuses)


\* the buckets of getTasksByStatus(): groupTasksByStatus over the cached tasks
\* (the order within a bucket left aside)
StatusBuckets(order) ==
  PushTasks(InitGrouped(config.statuses), [i \in 1..Len(order) |-> tasks[order[i]]])

\* C40: the status buckets getTasksByStatusPaginated reports have the keys and
\* sizes of those of getTasksByStatus(), every cached task counted in the
\* bucket of its status, so that the totals sum to the number of cached tasks.
C40_PaginatedAccountsForAll ==
  (last.op = "getTasksByStatusPaginated" /\ last.result.kind = "byStatus") =>
    LET byStatus == last.result.byStatus
        grouped == StatusBuckets(last.arg.order)
    IN /\ SeqToSet(MapKeys(byStatus)) = SeqToSet(MapKeys(grouped))
       /\ \A i \in 1..Len(byStatus) :
            byStatus[i].value.total = Len(MapGet(grouped, byStatus[i].key))
       /\ \A id \in DOMAIN tasks : MapHas(byStatus, tasks[id].status)
       /\ SumOver([i \in 1..Len(byStatus) |-> byStatus[i].value.total], 1..Len(byStatus))
            = Cardinality(DOMAIN tasks)

====
